---- MODULE Spec2Model ----
(***************************************************************************)
(* Telegram sales bot of erpnext_ai: the SQLite-backed BotStorage          *)
(* (telegram/storage.py), the ERPNext gateway (telegram/erpnext_client.py) *)
(* and the SalesBot handlers with the order conversation (telegram/bot.py).*)
(*                                                                         *)
(* Updates are processed one at a time (the Application is built without   *)
(* concurrent_updates), and every handler calls the gateway and the        *)
(* storage synchronously, so one handler is one atomic action.             *)
(***************************************************************************)
EXTENDS Integers, Sequences, FiniteSets, TLC

VARIABLES db, conv, user_data, files, keyboards, last, lock, pending, loop, config

vars ==
    <<db, conv, user_data, files, keyboards, last, lock, pending, loop, config>>

(***************************************************************************)
(* Bounded universe.  Telegram ids: users are positive, group chats are    *)
(* negative, and the private chat of a user has the user's id.             *)
(***************************************************************************)
Users == {1, 2}
Bots == {3}
Groups == {-1, -2}
Chats == Groups \cup Users
ADMIN_IDS == {1}
ApiKeys == {"k1"}
VaultKeys == {"k1", "k2"}
VaultSecrets == {"s", "k1"}
FileIds == {"p"}
Texts == {<<" ", "a", " ">>}
Captions == {<<"c">>}
Threads == {"T1", "T2"}
Names == {<<>>, <<<<"n">>>>}
Times == {"t1", "t2"}
Titles == {<<>>, <<<<>>>>, <<<<"g">>>>, <<<<"h">>>>}
ShortArgs == {<<>>, <<"k1">>}
MaxOrders == 1
MaxLog == 2
OrderStatuses == {"pending", "created", "done"}

NULL == 0
NoToken == <<>>
NoDraft == <<>>
NoPath == <<>>
NoText == <<>>

ChatType(c) == IF c \in Groups THEN "group" ELSE "private"

\* chat.title: a group has its title, a private chat has none.
ChatTitle(c) == IF c \in Groups THEN <<<<"g">>>> ELSE NoText

(***************************************************************************)
(* BotStorage: the tables.  A table is a function from the primary keys of *)
(* its rows; order_requests is the sequence of rows in id order.           *)
(***************************************************************************)
EmptyTable == [x \in {} |-> NULL]

EmptyDB ==
    [masters |-> EmptyTable, groups |-> EmptyTable, members |-> {},
     managers |-> EmptyTable, orders |-> <<>>]

Put(table, key, row) ==
    [x \in DOMAIN table \cup {key} |-> IF x = key THEN row ELSE table[x]]

Delete(table, key) == [x \in DOMAIN table \ {key} |-> table[x]]

Encrypt(value) == <<"fernet", value>>

\* Faulty variant: the stored token handed back as it is.
NoDecrypt(token) == token

Decrypt(token) == token[2]

\* Master manager operations
\* Faulty variant: add_master_manager that rewrites the whole row on a re-add.
ReplaceMasterManager(d, telegram_id, full_name, username, added_by, now) ==
    [db |-> [d EXCEPT !.masters =
                Put(@, telegram_id, [full_name |-> full_name, username |-> username,
                                     added_by |-> added_by, created_at |-> now])],
     ret |-> telegram_id \notin DOMAIN d.masters]

\* now is the value of _utcnow() during the call.
AddMasterManager(d, telegram_id, full_name, username, added_by, now) ==
    IF telegram_id \in DOMAIN d.masters
    THEN [db |-> [d EXCEPT !.masters[telegram_id].full_name = full_name,
                           !.masters[telegram_id].username = username],
          ret |-> FALSE]
    ELSE [db |-> [d EXCEPT !.masters =
                     Put(@, telegram_id, [full_name |-> full_name, username |-> username,
                                          added_by |-> added_by, created_at |-> now])],
          ret |-> TRUE]

\* Faulty variant: remove_master_manager that leaves the groups as they are.
RemoveOnlyRecord(d, telegram_id) == [d EXCEPT !.masters = Delete(@, telegram_id)]

RemoveMasterManager(d, telegram_id) ==
    [d EXCEPT !.masters = Delete(@, telegram_id),
              !.groups = [g \in DOMAIN @ |->
                             IF @[g].sales_master_manager_id = telegram_id
                             THEN [@[g] EXCEPT !.sales_master_manager_id = NULL]
                             ELSE @[g]]]

\* Faulty variant: every user passes for a master manager.
EveryoneMasterManager(d, telegram_id) == TRUE

IsMasterManager(d, telegram_id) == telegram_id \in DOMAIN d.masters

\* Group operations
\* Faulty variant: touch_group that stores the title it is given, null included.
TouchGroupOverwrite(d, chat_id, title, now) ==
    IF chat_id \in DOMAIN d.groups
    THEN [d EXCEPT !.groups[chat_id].title = title]
    ELSE [d EXCEPT !.groups =
             Put(@, chat_id, [title |-> title, sales_master_manager_id |-> NULL,
                              sales_manager_id |-> NULL, created_at |-> now])]

\* title is NoText for None; now is the value of _utcnow() during the call.
TouchGroup(d, chat_id, title, now) ==
    IF chat_id \in DOMAIN d.groups
    THEN [d EXCEPT !.groups[chat_id].title = IF title = NoText THEN @ ELSE title]
    ELSE [d EXCEPT !.groups =
             Put(@, chat_id, [title |-> title, sales_master_manager_id |-> NULL,
                              sales_manager_id |-> NULL, created_at |-> now])]

AssignGroupToMaster(d, chat_id, master_manager_id) ==
    IF chat_id \in DOMAIN d.groups
    THEN [d EXCEPT !.groups[chat_id].sales_master_manager_id = master_manager_id]
    ELSE d

UpsertGroupMember(d, chat_id, telegram_id) ==
    [d EXCEPT !.members = @ \cup {<<chat_id, telegram_id>>}]

ListGroupMembers(d, chat_id) == {m \in Users : <<chat_id, m>> \in d.members}

\* Sales manager operations
\* Faulty variant: sales_managers without UNIQUE on group_chat_id.
NoUniqueConstraint(managers, telegram_id, group_chat_id) == FALSE

UniqueGroupViolated(managers, telegram_id, group_chat_id) ==
    \E m \in DOMAIN managers :
        m # telegram_id /\ managers[m].group_chat_id = group_chat_id

\* Faulty variant: assign_sales_manager without the check of the existing binding.
NoBindingCheck(managers, telegram_id, group_chat_id) == FALSE

BoundElsewhere(managers, telegram_id, group_chat_id) ==
    /\ telegram_id \in DOMAIN managers
    /\ managers[telegram_id].group_chat_id # group_chat_id

\* Faulty variant: assign_sales_manager without the UPDATE of groups.
AssignWithoutGroupUpdate(d, telegram_id, group_chat_id) ==
    IF BoundElsewhere(d.managers, telegram_id, group_chat_id)
    THEN [db |-> d, raised |-> "ValueError"]
    ELSE IF UniqueGroupViolated(d.managers, telegram_id, group_chat_id)
    THEN [db |-> d, raised |-> "IntegrityError"]
    ELSE LET row == IF telegram_id \in DOMAIN d.managers
                    THEN [d.managers[telegram_id] EXCEPT
                             !.group_chat_id = group_chat_id,
                             !.status = "awaiting_api"]
                    ELSE [group_chat_id |-> group_chat_id,
                          status |-> "awaiting_api",
                          encrypted_api_key |-> NoToken,
                          encrypted_api_secret |-> NoToken]
         IN  [db |-> [d EXCEPT !.managers = Put(@, telegram_id, row)],
              raised |-> "none"]

AssignSalesManager(d, telegram_id, group_chat_id) ==
    IF BoundElsewhere(d.managers, telegram_id, group_chat_id)
    THEN [db |-> d, raised |-> "ValueError"]
    ELSE IF UniqueGroupViolated(d.managers, telegram_id, group_chat_id)
    THEN [db |-> d, raised |-> "IntegrityError"]
    ELSE LET row == IF telegram_id \in DOMAIN d.managers
                    THEN [d.managers[telegram_id] EXCEPT
                             !.group_chat_id = group_chat_id,
                             !.status = "awaiting_api"]
                    ELSE [group_chat_id |-> group_chat_id,
                          status |-> "awaiting_api",
                          encrypted_api_key |-> NoToken,
                          encrypted_api_secret |-> NoToken]
             groups == IF group_chat_id \in DOMAIN d.groups
                       THEN [d.groups EXCEPT ![group_chat_id].sales_manager_id = telegram_id]
                       ELSE d.groups
         IN  [db |-> [d EXCEPT !.managers = Put(@, telegram_id, row),
                               !.groups = groups],
              raised |-> "none"]

ClearSalesManager(d, telegram_id) ==
    [d EXCEPT !.groups = [g \in DOMAIN @ |->
                             IF @[g].sales_manager_id = telegram_id
                             THEN [@[g] EXCEPT !.sales_manager_id = NULL]
                             ELSE @[g]],
              !.managers = Delete(@, telegram_id)]

HasManager(d, telegram_id) == telegram_id \in DOMAIN d.managers

\* The telegram_id of the row get_sales_manager_for_group returns, NULL for none.
GetSalesManagerForGroup(d, chat_id) ==
    IF /\ chat_id \in DOMAIN d.groups
       /\ d.groups[chat_id].sales_manager_id \in DOMAIN d.managers
    THEN d.groups[chat_id].sales_manager_id
    ELSE NULL

StoreSalesManagerCredentials(d, telegram_id, api_key, api_secret, status) ==
    IF telegram_id \in DOMAIN d.managers
    THEN [d EXCEPT !.managers[telegram_id] =
             [@ EXCEPT !.encrypted_api_key = Encrypt(api_key),
                       !.encrypted_api_secret = Encrypt(api_secret),
                       !.status = status]]
    ELSE d

\* Faulty variant: credentials are returned only for an active sales manager.
CredentialsOnlyWhenActive(d, chat_id) ==
    LET m == GetSalesManagerForGroup(d, chat_id) IN
    IF m = NULL
    THEN <<>>
    ELSE IF \/ d.managers[m].encrypted_api_key = NoToken
            \/ d.managers[m].encrypted_api_secret = NoToken
            \/ d.managers[m].status # "active"
    THEN <<>>
    ELSE <<[telegram_id |-> m,
            api_key |-> Decrypt(d.managers[m].encrypted_api_key),
            api_secret |-> Decrypt(d.managers[m].encrypted_api_secret),
            status |-> d.managers[m].status]>>

\* <<>> for None, else <<(telegram_id, api_key, api_secret, status)>>.
GetGroupCredentials(d, chat_id) ==
    LET m == GetSalesManagerForGroup(d, chat_id) IN
    IF m = NULL
    THEN <<>>
    ELSE IF \/ d.managers[m].encrypted_api_key = NoToken
            \/ d.managers[m].encrypted_api_secret = NoToken
    THEN <<>>
    ELSE <<[telegram_id |-> m,
            api_key |-> Decrypt(d.managers[m].encrypted_api_key),
            api_secret |-> Decrypt(d.managers[m].encrypted_api_secret),
            status |-> d.managers[m].status]>>

\* Order logging
\* created_at and updated_at are the two values of _utcnow() during the call;
\* the id is the next one of the AUTOINCREMENT key.
LogOrderRequest(d, chat_id, requester_id, payload, sales_manager_id, status, created_at, updated_at) ==
    [db |-> [d EXCEPT !.orders = Append(@, [id |-> Len(@) + 1,
                                           chat_id |-> chat_id,
                                           requester_id |-> requester_id,
                                           payload |-> payload,
                                           sales_manager_id |-> sales_manager_id,
                                           status |-> status,
                                           created_at |-> created_at,
                                           updated_at |-> updated_at])],
     ret |-> Len(d.orders) + 1]

\* Faulty variant: update_order_status without the WHERE clause.
UpdateEveryOrder(d, order_id, status, now) ==
    [d EXCEPT !.orders = [i \in DOMAIN @ |->
                             [@[i] EXCEPT !.status = status, !.updated_at = now]]]

UpdateOrderStatus(d, order_id, status, now) ==
    [d EXCEPT !.orders = [i \in DOMAIN @ |->
                             IF @[i].id = order_id
                             THEN [@[i] EXCEPT !.status = status, !.updated_at = now]
                             ELSE @[i]]]

(***************************************************************************)
(* ERPNextClient.  A response is either a transport failure or an HTTP     *)
(* status with a body that parses as JSON or does not.                     *)
(***************************************************************************)
GatewayAnswers ==
    {[exc |-> FALSE, status_code |-> 200, json |-> TRUE],
     [exc |-> FALSE, status_code |-> 500, json |-> FALSE]}

ReportData == {"missing", "empty", "rows"}

\* The answer of a gateway that accepts the request.
AnswerOk == [exc |-> FALSE, status_code |-> 200, json |-> TRUE]

Responses ==
    {[exc |-> TRUE, status_code |-> 0, json |-> FALSE],
     [exc |-> FALSE, status_code |-> 200, json |-> TRUE],
     [exc |-> FALSE, status_code |-> 200, json |-> FALSE],
     [exc |-> FALSE, status_code |-> 401, json |-> TRUE],
     [exc |-> FALSE, status_code |-> 500, json |-> FALSE]}

\* TRUE when _handle_response raises ERPNextError.
HandleResponseRaises(resp) == resp.status_code >= 400 \/ ~resp.json

\* Faulty variant: validate_credentials that rejects a body it cannot parse.
RejectUnparsable(resp) == ~resp.exc /\ resp.status_code < 400 /\ resp.json

\* The ok component of validate_credentials' result.
ValidateCredentials(resp) ==
    IF resp.exc THEN FALSE
    ELSE IF resp.status_code = 401 THEN FALSE
    ELSE IF resp.status_code >= 400 THEN FALSE
    ELSE TRUE

\* fetch_report; data is the "data" member of the payload: "missing" (or not a
\* list), "empty" or "rows".  The result is "ERPNextError", "empty" or "rows".
FetchReport(resp, data) ==
    IF resp.exc \/ HandleResponseRaises(resp) THEN "ERPNextError"
    ELSE IF data = "missing" THEN "ERPNextError"
    ELSE data

\* Faulty variant: create_lead that returns whatever the server answered.
LeadNeverFails(resp) == "ok"

\* "ok" or "ERPNextError".
CreateLead(resp) ==
    IF resp.exc \/ HandleResponseRaises(resp) THEN "ERPNextError" ELSE "ok"

\* "ok", "ERPNextError", or "OSError" when the staged file cannot be opened.
UploadFile(fs, file_path, resp) ==
    IF file_path \notin fs THEN "OSError"
    ELSE IF resp.exc \/ HandleResponseRaises(resp) THEN "ERPNextError" ELSE "ok"

(***************************************************************************)
(* SalesBot: conversation states, drafts, staged files.                    *)
(***************************************************************************)
ORDER_PHOTO == "ORDER_PHOTO"
ORDER_PHONE == "ORDER_PHONE"
ORDER_NOTES == "ORDER_NOTES"
ORDER_QTY == "ORDER_QTY"
ORDER_UNIT == "ORDER_UNIT"
END == "END"
Idle == "Idle"
InFlight == {ORDER_PHOTO, ORDER_PHONE, ORDER_NOTES, ORDER_QTY, ORDER_UNIT}

AttachOrderPhoto == TRUE

\* BotConfig as load_bot_config gives it when the environment sets nothing.
DefaultConfig == [attach_order_photo |-> AttachOrderPhoto]

\* The value _utcnow() gives to the handlers: the bot is followed within one
\* reading of the clock.
BotClock == "t1"

\* ConversationHandler._update_state for the key (chat, user).
UpdateState(cv, c, u, new_state) ==
    [cv EXCEPT ![<<c, u>>] = IF new_state = END THEN Idle ELSE new_state]

\* Faulty variant: every user passes for an administrator.
EveryoneAdmin(user_id) == TRUE

IsAdmin(user_id) == user_id \in ADMIN_IDS

\* str.strip() on a text given as its sequence of characters.
RECURSIVE LStrip(_)
LStrip(t) == IF t # <<>> /\ Head(t) = " " THEN LStrip(Tail(t)) ELSE t

RECURSIVE RStrip(_)
RStrip(t) ==
    IF t # <<>> /\ t[Len(t)] = " " THEN RStrip(SubSeq(t, 1, Len(t) - 1)) ELSE t

Strip(t) == RStrip(LStrip(t))

\* Faulty variant: a new draft that carries a phone number and a caption.
PrefilledDraft(chat_id, requester_id) ==
    [chat_id |-> chat_id, requester_id |-> requester_id, photo_path |-> NoPath,
     photo_caption |-> <<<<"c">>>>, phone |-> <<<<"a">>>>, notes |-> NoText,
     quantity |-> NoText, unit |-> NoText]

OrderDraft(chat_id, requester_id) ==
    [chat_id |-> chat_id, requester_id |-> requester_id, photo_path |-> NoPath,
     photo_caption |-> NoText, phone |-> NoText, notes |-> NoText,
     quantity |-> NoText, unit |-> NoText]

\* context.user_data belongs to the effective user of the update.
GetOrderDraft(ud, u) == ud[u]

SetOrderDraft(ud, u, draft) == [ud EXCEPT ![u] = <<draft>>]

\* Faulty variant: _clear_order_draft that leaves the draft and the file.
KeepOrderDraft(ud, fs, u) == [user_data |-> ud, files |-> fs]

\* _clear_order_draft: pops the draft and unlinks its staged photo if it exists.
ClearOrderDraft(ud, fs, u) ==
    [user_data |-> [ud EXCEPT ![u] = NoDraft],
     files |-> IF ud[u] # NoDraft /\ ud[u][1].photo_path # NoPath
               THEN fs \ {ud[u][1].photo_path[1]}
               ELSE fs]

\* The record of a handled update: handler, chat, user, arguments, reply, the
\* gateway methods the handler called and, for the submit, the steps it took.
LastCalling(h, c, u, arg, out, calls) ==
    [h |-> h, chat |-> c, user |-> u, arg |-> arg, out |-> out, calls |-> calls,
     steps |-> <<>>]

Last(h, c, u, arg, out) == LastCalling(h, c, u, arg, out, <<>>)

\* BotStorage._lock is held by no thread; no storage call is in progress.
FreeLock == "free"

\* The thread that runs the asyncio event loop is inside no gateway request.
LoopIdle ==
    [call |-> "none", chat |-> NULL, user |-> NULL, text |-> NoText, member |-> NULL]

NoCall ==
    [pc |-> "idle", telegram_id |-> NULL, group_chat_id |-> NULL, snapshot |-> <<>>,
     raised |-> "none"]

Init ==
    /\ db = EmptyDB
    /\ conv = [k \in Chats \X Users |-> Idle]
    /\ user_data = [u \in Users |-> NoDraft]
    /\ files = {}
    /\ keyboards = {}
    /\ last = Last("init", NULL, NULL, <<>>, "none")
    /\ lock = FreeLock
    /\ pending = [t \in Threads |-> NoCall]
    /\ loop = LoopIdle
    /\ config = DefaultConfig

(***************************************************************************)
(* Handlers.  `last` records the update that was handled (handler, chat,   *)
(* user, arguments) and the reply the bot sent for it.                     *)
(***************************************************************************)
HandleAddMasterManager(c, u, target_id, name_hint, now) ==
    /\ IF ~IsAdmin(u)
       THEN /\ db' = db
            /\ last' = Last("add_master_manager", c, u, <<target_id>>, "denied")
       ELSE LET r == AddMasterManager(db, target_id, name_hint, NoText, u, now) IN
            /\ db' = r.db
            /\ last' = Last("add_master_manager", c, u, <<target_id>>,
                            IF r.ret THEN "created" ELSE "refreshed")
    /\ UNCHANGED <<conv, user_data, files, keyboards>>
    /\ UNCHANGED <<lock, pending, loop, config>>

HandleRemoveMasterManager(c, u, target_id) ==
    /\ IF ~IsAdmin(u)
       THEN /\ db' = db
            /\ last' = Last("remove_master_manager", c, u, <<target_id>>, "denied")
       ELSE /\ db' = RemoveMasterManager(db, target_id)
            /\ last' = Last("remove_master_manager", c, u, <<target_id>>, "removed")
    /\ UNCHANGED <<conv, user_data, files, keyboards>>
    /\ UNCHANGED <<lock, pending, loop, config>>

\* /start in a group touches the group; in a private chat it only replies.
HandleStart(c, u) ==
    /\ IF ChatType(c) = "private"
       THEN /\ db' = db
            /\ last' = Last("start", c, u, <<>>, "help")
       ELSE /\ db' = TouchGroup(db, c, ChatTitle(c), BotClock)
            /\ last' = Last("start", c, u, <<>>, "greeting")
    /\ UNCHANGED <<conv, user_data, files, keyboards>>
    /\ UNCHANGED <<lock, pending, loop, config>>

\* /list_master_managers reads the table for an administrator.
HandleListMasterManagers(c, u) ==
    /\ last' = Last("list_master_managers", c, u, <<>>,
                    IF ~IsAdmin(u) THEN "denied"
                    ELSE IF DOMAIN db.masters = {} THEN "empty" ELSE "list")
    /\ UNCHANGED <<db, conv, user_data, files, keyboards>>
    /\ UNCHANGED <<lock, pending, loop, config>>

HandleHelp(c, u) ==
    /\ last' = Last("help", c, u, <<>>, "help")
    /\ UNCHANGED <<db, conv, user_data, files, keyboards>>
    /\ UNCHANGED <<lock, pending, loop, config>>

\* /whoami shows the sender's sales manager status and chat when there is one.
HandleWhoami(c, u) ==
    /\ last' = Last("whoami", c, u, <<>>,
                    IF HasManager(db, u) THEN db.managers[u].status ELSE "no_role")
    /\ UNCHANGED <<db, conv, user_data, files, keyboards>>
    /\ UNCHANGED <<lock, pending, loop, config>>

\* Faulty variant: handle_report without the check of the status.
ReportWithoutStatusCheck(d, c) ==
    IF ChatType(c) # "group" THEN "group_only"
    ELSE IF GetGroupCredentials(d, c) = <<>> THEN "no_manager"
    ELSE "fetch"

\* The early returns of handle_report: "group_only", "no_manager",
\* "not_active", or "fetch" when the handler goes on to the gateway.
ReportDecision(d, c) ==
    IF ChatType(c) # "group" THEN "group_only"
    ELSE IF GetGroupCredentials(d, c) = <<>> THEN "no_manager"
    ELSE IF GetGroupCredentials(d, c)[1].status # "active" THEN "not_active"
    ELSE "fetch"

\* /report; resp and data are the gateway's answer.
HandleReport(c, u, resp, data) ==
    LET decision == ReportDecision(db, c) IN
    /\ IF decision # "fetch"
       THEN last' = Last("report", c, u, <<>>, decision)
       ELSE last' = LastCalling("report", c, u, <<>>, FetchReport(resp, data),
                                <<"fetch_report">>)
    /\ UNCHANGED <<db, conv, user_data, files, keyboards>>
    /\ UNCHANGED <<lock, pending, loop, config>>

\* /users: the keyboard offers one assign_sm:<chat>:<member> button per member.
HandleListGroupUsers(c, u) ==
    /\ IF ChatType(c) # "group"
       THEN /\ UNCHANGED <<db, keyboards>>
            /\ last' = Last("users", c, u, <<>>, "group_only")
       ELSE IF ~IsMasterManager(db, u)
       THEN /\ UNCHANGED <<db, keyboards>>
            /\ last' = Last("users", c, u, <<>>, "denied")
       ELSE LET d == AssignGroupToMaster(TouchGroup(db, c, ChatTitle(c), BotClock), c, u)
                members == ListGroupMembers(d, c)
            IN  /\ db' = d
                /\ keyboards' = keyboards \cup {<<c, m>> : m \in members}
                /\ last' = Last("users", c, u, <<>>,
                                IF members = {} THEN "empty" ELSE "keyboard")
    /\ UNCHANGED <<conv, user_data, files>>
    /\ UNCHANGED <<lock, pending, loop, config>>

\* handle_assign_sales_manager once the presser has passed for a master
\* manager: get_chat_member has answered (found or not) and the rest runs.
AssignEffect(u, chat_id, member_id, found) ==
    IF ~found
    THEN /\ db' = db
         /\ last' = Last("assign_sm", chat_id, u, <<chat_id, member_id>>, "not_found")
    ELSE LET r == AssignSalesManager(db, member_id, chat_id) IN
         IF r.raised = "ValueError"
         THEN /\ db' = r.db
              /\ last' = Last("assign_sm", chat_id, u, <<chat_id, member_id>>, "conflict")
         ELSE IF r.raised # "none"
         THEN /\ db' = r.db
              /\ last' = Last("assign_sm", chat_id, u, <<chat_id, member_id>>, "error")
         ELSE /\ db' = TouchGroup(r.db, chat_id, ChatTitle(chat_id), BotClock)
              /\ last' = Last("assign_sm", chat_id, u, <<chat_id, member_id>>, "assigned")

\* Callback assign_sm:<chat_id>:<member_id> pressed by user u; found is whether
\* get_chat_member returned the member.
HandleAssignSalesManager(u, chat_id, member_id, found) ==
    /\ <<chat_id, member_id>> \in keyboards
    /\ IF ~IsMasterManager(db, u)
       THEN /\ db' = db
            /\ last' = Last("assign_sm", chat_id, u, <<chat_id, member_id>>, "denied")
       ELSE AssignEffect(u, chat_id, member_id, found)
    /\ UNCHANGED <<conv, user_data, files, keyboards>>
    /\ UNCHANGED <<lock, pending, loop, config>>

\* Faulty variant: the credentials are activated whatever the validation said.
AlwaysActive(ok) == "active"

\* The status handle_set_api_credentials stores for a validation result.
CredentialStatus(ok) == IF ok THEN "active" ELSE "awaiting_api"

\* Faulty variant: /set_api without the look-up of the sender's sales manager row.
SetApiWithoutManagerCheck(d, c, u, args) ==
    IF ChatType(c) # "private" THEN "private_only"
    ELSE IF Len(args) < 2 THEN "usage"
    ELSE "validate"

\* The early returns of handle_set_api_credentials: "private_only", "usage",
\* "not_assigned", or "validate" when the handler goes on to the gateway.
SetApiDecision(d, c, u, args) ==
    IF ChatType(c) # "private" THEN "private_only"
    ELSE IF Len(args) < 2 THEN "usage"
    ELSE IF ~HasManager(d, u) THEN "not_assigned"
    ELSE "validate"

\* The first two arguments of a command as `last` shows them, "" for a missing one.
ShownArgs(args) == SubSeq(args \o <<"", "">>, 1, 2)

\* /set_api with the arguments args (context.args); resp is the gateway's
\* answer to the check when the handler asks for it.
HandleSetApiCredentials(c, u, args, resp) ==
    LET decision == SetApiDecision(db, c, u, args)
        shown == ShownArgs(args) \o <<resp>>
    IN
    /\ IF decision # "validate"
       THEN /\ db' = db
            /\ last' = Last("set_api", c, u, shown, decision)
       ELSE LET ok == ValidateCredentials(resp) IN
            /\ db' = StoreSalesManagerCredentials(db, u, args[1], args[2],
                                                  CredentialStatus(ok))
            /\ last' = LastCalling("set_api", c, u, shown,
                                   IF ok THEN "validated" ELSE "rejected",
                                   <<"validate_credentials">>)
    /\ UNCHANGED <<conv, user_data, files, keyboards>>
    /\ UNCHANGED <<lock, pending, loop, config>>

\* A non-command message in a group that the order conversation does not take.
\* The sender is a bot account (user.is_bot) exactly when its id is in Bots; a
\* bot account has no conversation.
HandleGroupActivity(c, u, kind) ==
    /\ ChatType(c) = "group"
    /\ u \in Users =>
           \/ kind = "text" /\ conv[<<c, u>>] \notin {ORDER_PHONE, ORDER_NOTES, ORDER_QTY, ORDER_UNIT}
           \/ kind = "photo" /\ conv[<<c, u>>] # ORDER_PHOTO
    /\ IF u \in Bots
       THEN /\ db' = db
            /\ last' = Last("group_activity", c, u, <<>>, "ignored")
       ELSE /\ db' = UpsertGroupMember(TouchGroup(db, c, ChatTitle(c), BotClock), c, u)
            /\ last' = Last("group_activity", c, u, <<>>, "tracked")
    /\ UNCHANGED <<conv, user_data, files, keyboards>>
    /\ UNCHANGED <<lock, pending, loop, config>>

(***************************************************************************)
(* Order conversation (ConversationHandler "sales_order_flow", keyed by    *)
(* chat and user, allow_reentry).                                          *)
(***************************************************************************)
\* Faulty variant: handle_order_start without the check of the status.
StartWithoutStatusCheck(d, c) ==
    IF ChatType(c) # "group" THEN "group_only"
    ELSE IF GetGroupCredentials(d, c) = <<>> THEN "no_manager"
    ELSE "started"

\* The decision of handle_order_start: "group_only", "no_manager",
\* "not_active" or "started".
OrderStartDecision(d, c) ==
    IF ChatType(c) # "group" THEN "group_only"
    ELSE IF GetGroupCredentials(d, c) = <<>> THEN "no_manager"
    ELSE IF GetGroupCredentials(d, c)[1].status # "active" THEN "not_active"
    ELSE "started"

HandleOrderStart(c, u) ==
    LET decision == OrderStartDecision(db, c) IN
    /\ IF decision = "started"
       THEN /\ user_data' = SetOrderDraft(user_data, u, OrderDraft(c, u))
            /\ conv' = UpdateState(conv, c, u, ORDER_PHOTO)
       ELSE /\ user_data' = user_data
            /\ conv' = UpdateState(conv, c, u, END)
    /\ last' = Last("order_start", c, u,
                    IF last.h = "order_cancel" /\ last.chat = c /\ last.user = u
                    THEN <<"after_cancel", last.arg[1]>> ELSE <<>>,
                    decision)
    /\ UNCHANGED <<db, files, keyboards>>
    /\ UNCHANGED <<lock, pending, loop, config>>

HandleOrderPhoto(c, u, file_unique_id, caption) ==
    /\ conv[<<c, u>>] = ORDER_PHOTO
    /\ IF GetOrderDraft(user_data, u) = NoDraft
       THEN /\ UNCHANGED <<user_data, files>>
            /\ conv' = UpdateState(conv, c, u, END)
            /\ last' = Last("order_photo", c, u, <<file_unique_id>>, "no_draft")
       ELSE LET draft == GetOrderDraft(user_data, u)[1]
                file_path == <<draft.chat_id, draft.requester_id, file_unique_id>>
            IN  /\ files' = files \cup {file_path}
                /\ user_data' = SetOrderDraft(user_data, u,
                                    [draft EXCEPT !.photo_path = <<file_path>>,
                                                  !.photo_caption = <<caption>>])
                /\ conv' = UpdateState(conv, c, u, ORDER_PHONE)
                /\ last' = Last("order_photo", c, u, <<file_unique_id>>, "ask_phone")
    /\ UNCHANGED <<db, keyboards>>
    /\ UNCHANGED <<lock, pending, loop, config>>

HandleOrderSkipPhoto(c, u) ==
    /\ conv[<<c, u>>] = ORDER_PHOTO
    /\ conv' = UpdateState(conv, c, u, ORDER_PHONE)
    /\ last' = Last("order_skip", c, u, <<>>, "ask_phone")
    /\ UNCHANGED <<db, user_data, files, keyboards>>
    /\ UNCHANGED <<lock, pending, loop, config>>

\* Faulty variant: the phone number's handler returns ORDER_QTY.
SkippingStep(state) ==
    CASE state = ORDER_PHONE -> [h |-> "order_phone", next |-> ORDER_QTY, out |-> "ask_notes"]
      [] state = ORDER_NOTES -> [h |-> "order_notes", next |-> ORDER_QTY, out |-> "ask_quantity"]
      [] state = ORDER_QTY -> [h |-> "order_quantity", next |-> ORDER_UNIT, out |-> "ask_unit"]

\* handle_order_phone, handle_order_notes and handle_order_quantity: the reply
\* is stored trimmed in the state's field of the draft.
TextStep(state) ==
    CASE state = ORDER_PHONE -> [h |-> "order_phone", next |-> ORDER_NOTES, out |-> "ask_notes"]
      [] state = ORDER_NOTES -> [h |-> "order_notes", next |-> ORDER_QTY, out |-> "ask_quantity"]
      [] state = ORDER_QTY -> [h |-> "order_quantity", next |-> ORDER_UNIT, out |-> "ask_unit"]

StoreReply(draft, state, text) ==
    CASE state = ORDER_PHONE -> [draft EXCEPT !.phone = <<Strip(text)>>]
      [] state = ORDER_NOTES -> [draft EXCEPT !.notes = <<Strip(text)>>]
      [] state = ORDER_QTY -> [draft EXCEPT !.quantity = <<Strip(text)>>]
      [] state = ORDER_UNIT -> [draft EXCEPT !.unit = <<Strip(text)>>]

HandleOrderText(c, u, text) ==
    /\ conv[<<c, u>>] \in {ORDER_PHONE, ORDER_NOTES, ORDER_QTY}
    /\ LET state == conv[<<c, u>>]
           step == TextStep(state)
       IN  IF GetOrderDraft(user_data, u) = NoDraft
           THEN /\ user_data' = user_data
                /\ conv' = UpdateState(conv, c, u, END)
                /\ last' = Last(step.h, c, u, <<text>>, "no_draft")
           ELSE /\ user_data' = SetOrderDraft(user_data, u,
                                    StoreReply(GetOrderDraft(user_data, u)[1], state, text))
                /\ conv' = UpdateState(conv, c, u, step.next)
                /\ last' = Last(step.h, c, u, <<text>>, step.out)
    /\ UNCHANGED <<db, files, keyboards>>
    /\ UNCHANGED <<lock, pending, loop, config>>

\* Faulty variant: the order request is logged before the lead is created.
LogBeforeLead(upload) ==
    <<"log_order_request", "create_lead">>
    \o (IF upload = "skipped" THEN <<>> ELSE <<"upload_file">>)
    \o <<"send_message", "clear_order_draft">>

\* The statements of handle_order_unit that act on the gateway, the storage,
\* the sales manager's chat and the draft, in the order of the code, once the
\* sales manager has been found active.
SubmitSteps(upload) ==
    <<"create_lead">>
    \o (IF upload = "skipped" THEN <<>> ELSE <<"upload_file">>)
    \o <<"log_order_request", "send_message", "clear_order_draft">>

\* The steps begun when an exception leaves the handler in the given step.
StepsThrough(steps, step) ==
    SubSeq(steps, 1, CHOOSE i \in 1 .. Len(steps) : steps[i] = step)

\* handle_order_unit.  env gives the gateway's answers and whether the message
\* to the sales manager is delivered.  new_state "RAISE" stands for an exception
\* leaving the handler: the conversation keeps its state.
OrderUnit(d, ud, fs, u, text, env) ==
    IF GetOrderDraft(ud, u) = NoDraft
    THEN [db |-> d, user_data |-> ud, files |-> fs, new_state |-> END, out |-> "no_draft",
          calls |-> <<>>, steps |-> <<>>]
    ELSE
    LET draft == StoreReply(GetOrderDraft(ud, u)[1], ORDER_UNIT, text)
        ud1 == SetOrderDraft(ud, u, draft)
        cleared == ClearOrderDraft(ud1, fs, u)
        Abort(out, calls) ==
            [db |-> d, user_data |-> cleared.user_data, files |-> cleared.files,
             new_state |-> END, out |-> out, calls |-> calls,
             steps |-> calls \o <<"clear_order_draft">>]
        credentials == GetGroupCredentials(d, draft.chat_id)
    IN
    IF credentials = <<>> THEN Abort("no_manager", <<>>)
    ELSE IF credentials[1].status # "active" THEN Abort("not_active", <<>>)
    ELSE IF CreateLead(env.lead) = "ERPNextError" THEN Abort("lead_error", <<"create_lead">>)
    ELSE
    LET upload == IF draft.photo_path # NoPath /\ config.attach_order_photo
                  THEN UploadFile(fs, draft.photo_path[1], env.upload)
                  ELSE "skipped"
        payload == [phone |-> draft.phone, notes |-> draft.notes,
                    quantity |-> draft.quantity, unit |-> draft.unit,
                    attachment |-> IF upload = "ok" THEN "file_url" ELSE "none"]
        logged == LogOrderRequest(d, draft.chat_id, draft.requester_id, payload,
                                  credentials[1].telegram_id, "created",
                                  BotClock, BotClock)
        calls == IF upload = "skipped" THEN <<"create_lead">>
                 ELSE <<"create_lead", "upload_file">>
    IN
    IF upload = "OSError"
    THEN [db |-> d, user_data |-> ud1, files |-> fs, new_state |-> "RAISE",
          out |-> "upload_crashed", calls |-> calls,
          steps |-> StepsThrough(SubmitSteps(upload), "upload_file")]
    ELSE IF ~env.notify
    THEN [db |-> logged.db, user_data |-> ud1, files |-> fs, new_state |-> "RAISE",
          out |-> "notify_failed", calls |-> calls,
          steps |-> StepsThrough(SubmitSteps(upload), "send_message")]
    ELSE [db |-> logged.db, user_data |-> cleared.user_data, files |-> cleared.files,
          new_state |-> END, out |-> "submitted", calls |-> calls,
          steps |-> SubmitSteps(upload)]

\* What handle_order_unit leaves behind for the reply text in session (c, u).
OrderUnitEffect(c, u, text, env) ==
    LET r == OrderUnit(db, user_data, files, u, text, env) IN
    /\ db' = r.db
    /\ user_data' = r.user_data
    /\ files' = r.files
    /\ conv' = IF r.new_state = "RAISE" THEN conv ELSE UpdateState(conv, c, u, r.new_state)
    /\ last' = [LastCalling("order_unit", c, u, <<text, env>>, r.out, r.calls)
                    EXCEPT !.steps = r.steps]

HandleOrderUnit(c, u, text, env) ==
    /\ conv[<<c, u>>] = ORDER_UNIT
    /\ OrderUnitEffect(c, u, text, env)
    /\ UNCHANGED keyboards
    /\ UNCHANGED <<lock, pending, loop, config>>

\* /cancel is the conversation's fallback: it is taken in every in-flight state.
HandleOrderCancel(c, u) ==
    /\ conv[<<c, u>>] \in InFlight
    /\ LET cleared == ClearOrderDraft(user_data, files, u) IN
       /\ user_data' = cleared.user_data
       /\ files' = cleared.files
    /\ conv' = UpdateState(conv, c, u, END)
    /\ last' = Last("order_cancel", c, u, <<conv[<<c, u>>]>>, "cancelled")
    /\ UNCHANGED <<db, keyboards>>
    /\ UNCHANGED <<lock, pending, loop, config>>

\* The staged photo lives in the system's temporary directory, where it can be
\* removed from outside the bot.
TempFileRemoved(f) ==
    /\ f \in files
    /\ files' = files \ {f}
    /\ last' = Last("tmp_removed", NULL, NULL, <<>>, "none")
    /\ UNCHANGED <<db, conv, user_data, keyboards>>
    /\ UNCHANGED <<lock, pending, loop, config>>

(***************************************************************************)
(* SpecGateway: the ERPNextClient methods called with every answer the     *)
(* server can give: a transport failure, or an HTTP status (the ends and   *)
(* some inner values of each class) with a body that parses as JSON or     *)
(* does not.  `last` holds the method, the answer and what the method      *)
(* returned or raised.                                                     *)
(***************************************************************************)
StatusCodes ==
    {100, 199, 200, 201, 204, 299, 300, 304, 399, 400, 401, 402, 403, 404, 499, 500,
     503, 599}

AllResponses ==
    {[exc |-> TRUE, status_code |-> 0, json |-> FALSE]}
    \cup [exc : {FALSE}, status_code : StatusCodes, json : BOOLEAN]

CallValidateCredentials(resp) ==
    /\ last' = LastCalling("validate_credentials", NULL, NULL, <<resp>>,
                           IF ValidateCredentials(resp) THEN "True" ELSE "False",
                           <<>>)
    /\ UNCHANGED <<db, conv, user_data, files, keyboards>>
    /\ UNCHANGED <<lock, pending, loop, config>>

CallFetchReport(resp, data) ==
    /\ last' = LastCalling("fetch_report", NULL, NULL, <<resp, data>>,
                           FetchReport(resp, data), <<>>)
    /\ UNCHANGED <<db, conv, user_data, files, keyboards>>
    /\ UNCHANGED <<lock, pending, loop, config>>

CallCreateLead(resp) ==
    /\ last' = LastCalling("create_lead", NULL, NULL, <<resp>>, CreateLead(resp), <<>>)
    /\ UNCHANGED <<db, conv, user_data, files, keyboards>>
    /\ UNCHANGED <<lock, pending, loop, config>>

NextGateway ==
    \/ \E resp \in AllResponses : CallValidateCredentials(resp)
    \/ \E resp \in AllResponses, data \in ReportData : CallFetchReport(resp, data)
    \/ \E resp \in AllResponses : CallCreateLead(resp)

SpecGateway == Init /\ [][NextGateway]_vars

(***************************************************************************)
(* SpecStorage: the BotStorage methods that write masters, groups and      *)
(* sales managers, called in any order on an empty database.  `last` holds *)
(* the call (method, group, telegram id) and what it returned or raised.   *)
(***************************************************************************)
Statuses == {"awaiting_api", "active"}

CallAddMasterManager(telegram_id, full_name, username, added_by, now) ==
    LET r == AddMasterManager(db, telegram_id, full_name, username, added_by, now) IN
    /\ db' = r.db
    /\ last' = Last("add_master_manager", NULL, telegram_id,
                    <<full_name, username, added_by, now>>,
                    IF r.ret THEN "True" ELSE "False")
    /\ UNCHANGED <<conv, user_data, files, keyboards>>
    /\ UNCHANGED <<lock, pending, loop, config>>

CallRemoveMasterManager(telegram_id) ==
    /\ db' = RemoveMasterManager(db, telegram_id)
    /\ last' = Last("remove_master_manager", NULL, telegram_id, <<>>, "None")
    /\ UNCHANGED <<conv, user_data, files, keyboards>>
    /\ UNCHANGED <<lock, pending, loop, config>>

CallTouchGroup(chat_id, title, now) ==
    /\ db' = TouchGroup(db, chat_id, title, now)
    /\ last' = Last("touch_group", chat_id, NULL, <<title, now>>, "None")
    /\ UNCHANGED <<conv, user_data, files, keyboards>>
    /\ UNCHANGED <<lock, pending, loop, config>>

CallAssignGroupToMaster(chat_id, master_manager_id) ==
    /\ db' = AssignGroupToMaster(db, chat_id, master_manager_id)
    /\ last' = Last("assign_group_to_master", chat_id, master_manager_id, <<>>, "None")
    /\ UNCHANGED <<conv, user_data, files, keyboards>>
    /\ UNCHANGED <<lock, pending, loop, config>>

CallAssignSalesManager(telegram_id, group_chat_id) ==
    LET r == AssignSalesManager(db, telegram_id, group_chat_id) IN
    /\ db' = r.db
    /\ last' = Last("assign_sales_manager", group_chat_id, telegram_id, <<>>, r.raised)
    /\ UNCHANGED <<conv, user_data, files, keyboards>>
    /\ UNCHANGED <<lock, pending, loop, config>>

CallClearSalesManager(telegram_id) ==
    /\ db' = ClearSalesManager(db, telegram_id)
    /\ last' = Last("clear_sales_manager", NULL, telegram_id, <<>>, "None")
    /\ UNCHANGED <<conv, user_data, files, keyboards>>
    /\ UNCHANGED <<lock, pending, loop, config>>

CallStoreSalesManagerCredentials(telegram_id, api_key, api_secret, status) ==
    /\ db' = StoreSalesManagerCredentials(db, telegram_id, api_key, api_secret, status)
    /\ last' = Last("store_sales_manager_credentials", NULL, telegram_id,
                    <<api_key, api_secret, status>>, "None")
    /\ UNCHANGED <<conv, user_data, files, keyboards>>
    /\ UNCHANGED <<lock, pending, loop, config>>

NextStorage ==
    \/ \E t \in Users, by \in ADMIN_IDS : CallAddMasterManager(t, NoText, NoText, by, "t1")
    \/ \E t \in Users : CallRemoveMasterManager(t)
    \/ \E g \in Groups : CallTouchGroup(g, ChatTitle(g), BotClock)
    \/ \E g \in Groups, m \in Users : CallAssignGroupToMaster(g, m)
    \/ \E m \in Users, g \in Groups : CallAssignSalesManager(m, g)
    \/ \E m \in Users : CallClearSalesManager(m)
    \/ \E m \in Users, k \in ApiKeys, st \in Statuses :
           CallStoreSalesManagerCredentials(m, k, "s", st)

SpecStorage == Init /\ [][NextStorage]_vars

(***************************************************************************)
(* SpecGroups: the BotStorage methods that write the groups, called in any *)
(* order on an empty database, touch_group with any title (none, empty or  *)
(* one of two texts) at any clock value.                                   *)
(***************************************************************************)
NextGroups ==
    \/ \E g \in Groups, title \in Titles, now \in Times : CallTouchGroup(g, title, now)
    \/ \E g \in Groups : CallAssignGroupToMaster(g, 2)
    \/ \E g \in Groups : CallAssignSalesManager(1, g)
    \/ CallClearSalesManager(1)
    \/ CallRemoveMasterManager(2)

SpecGroups == Init /\ [][NextGroups]_vars

(***************************************************************************)
(* SpecLog: the BotStorage methods that write the order requests, with     *)
(* the methods that bind and clear the sales manager the requests name,    *)
(* called in any order on an empty database until MaxLog requests are      *)
(* logged.                                                                 *)
(***************************************************************************)
CallLogOrderRequest(chat_id, requester_id, payload, sales_manager_id, status, created_at, updated_at) ==
    LET r == LogOrderRequest(db, chat_id, requester_id, payload, sales_manager_id,
                             status, created_at, updated_at)
    IN
    /\ Len(db.orders) < MaxLog
    /\ db' = r.db
    /\ last' = Last("log_order_request", chat_id, requester_id,
                    <<payload, sales_manager_id, status, created_at, updated_at, r.ret>>,
                    "id")
    /\ UNCHANGED <<conv, user_data, files, keyboards>>
    /\ UNCHANGED <<lock, pending, loop, config>>

CallUpdateOrderStatus(order_id, status, now) ==
    /\ db' = UpdateOrderStatus(db, order_id, status, now)
    /\ last' = Last("update_order_status", NULL, NULL, <<order_id, status, now>>, "None")
    /\ UNCHANGED <<conv, user_data, files, keyboards>>
    /\ UNCHANGED <<lock, pending, loop, config>>

NextLog ==
    \/ \E st \in {"pending", "created"}, at \in Times :
           CallLogOrderRequest(-1, 2, "payload", 1, st, at, at)
    \/ \E id \in 0 .. MaxLog + 1, st \in OrderStatuses, now \in Times :
           CallUpdateOrderStatus(id, st, now)
    \/ CallTouchGroup(-1, ChatTitle(-1), BotClock)
    \/ CallAssignSalesManager(1, -1)
    \/ CallClearSalesManager(1)

SpecLog == Init /\ [][NextLog]_vars

(***************************************************************************)
(* SpecThreads: assign_sales_manager called from two threads on one        *)
(* BotStorage, statement by statement.  `pending` holds each thread's      *)
(* call: where it is, its arguments, the tables as they were when it took  *)
(* the lock, and what it raised.  The statements of a call are visible to  *)
(* the other thread as they execute only if the other thread does not wait *)
(* for the lock.                                                           *)
(***************************************************************************)
\* Faulty variant: the with-block entered without waiting for the lock.
NoLock(l, t) == TRUE

\* threading.RLock: free, or held by the thread itself.
LockFree(l, t) == l = FreeLock \/ l = t

AssignBegin(t, telegram_id, group_chat_id) ==
    /\ pending[t].pc \in {"idle", "done"}
    /\ pending' = [pending EXCEPT ![t] =
                      [pc |-> "lock", telegram_id |-> telegram_id,
                       group_chat_id |-> group_chat_id, snapshot |-> <<>>,
                       raised |-> "none"]]
    /\ UNCHANGED <<db, conv, user_data, files, keyboards, last, lock, loop, config>>

\* with self._lock, self._connection() as conn
AssignAcquire(t) ==
    /\ pending[t].pc = "lock"
    /\ LockFree(lock, t)
    /\ lock' = t
    /\ pending' = [pending EXCEPT ![t].pc = "select", ![t].snapshot = <<db>>]
    /\ UNCHANGED <<db, conv, user_data, files, keyboards, last, loop, config>>

\* SELECT group_chat_id ...; raise ValueError when bound to another group.
AssignSelect(t) ==
    /\ pending[t].pc = "select"
    /\ IF BoundElsewhere(db.managers, pending[t].telegram_id, pending[t].group_chat_id)
       THEN /\ pending' = [pending EXCEPT ![t].pc = "done", ![t].raised = "ValueError"]
            /\ lock' = FreeLock
       ELSE /\ pending' = [pending EXCEPT ![t].pc = "upsert"]
            /\ lock' = lock
    /\ UNCHANGED <<db, conv, user_data, files, keyboards, last, loop, config>>

\* INSERT INTO sales_managers ... ON CONFLICT(telegram_id) DO UPDATE
AssignUpsert(t) ==
    LET m == pending[t].telegram_id
        g == pending[t].group_chat_id
    IN
    /\ pending[t].pc = "upsert"
    /\ IF UniqueGroupViolated(db.managers, m, g)
       THEN /\ pending' = [pending EXCEPT ![t].pc = "done", ![t].raised = "IntegrityError"]
            /\ lock' = FreeLock
            /\ db' = db
       ELSE /\ pending' = [pending EXCEPT ![t].pc = "update_groups"]
            /\ lock' = lock
            /\ db' = [db EXCEPT !.managers =
                         Put(@, m, IF m \in DOMAIN @
                                   THEN [@[m] EXCEPT !.group_chat_id = g,
                                                     !.status = "awaiting_api"]
                                   ELSE [group_chat_id |-> g,
                                         status |-> "awaiting_api",
                                         encrypted_api_key |-> NoToken,
                                         encrypted_api_secret |-> NoToken])]
    /\ UNCHANGED <<conv, user_data, files, keyboards, last, loop, config>>

\* UPDATE groups SET sales_manager_id = ? WHERE chat_id = ?
AssignUpdateGroups(t) ==
    LET m == pending[t].telegram_id
        g == pending[t].group_chat_id
    IN
    /\ pending[t].pc = "update_groups"
    /\ db' = IF g \in DOMAIN db.groups
             THEN [db EXCEPT !.groups[g].sales_manager_id = m]
             ELSE db
    /\ pending' = [pending EXCEPT ![t].pc = "commit"]
    /\ UNCHANGED <<conv, user_data, files, keyboards, last, lock, loop, config>>

\* conn.commit(), conn.close(), and the lock is released.
AssignCommit(t) ==
    /\ pending[t].pc = "commit"
    /\ pending' = [pending EXCEPT ![t].pc = "done"]
    /\ lock' = FreeLock
    /\ UNCHANGED <<db, conv, user_data, files, keyboards, last, loop, config>>

InitThreads ==
    /\ db = TouchGroup(TouchGroup(EmptyDB, -1, ChatTitle(-1), BotClock), -2, ChatTitle(-2),
                    BotClock)
    /\ conv = [k \in Chats \X Users |-> Idle]
    /\ user_data = [u \in Users |-> NoDraft]
    /\ files = {}
    /\ keyboards = {}
    /\ last = Last("init", NULL, NULL, <<>>, "none")
    /\ lock = FreeLock
    /\ pending = [t \in Threads |-> NoCall]
    /\ loop = LoopIdle
    /\ config = DefaultConfig

NextThreads ==
    \/ \E t \in Threads, m \in Users, g \in Groups : AssignBegin(t, m, g)
    \/ \E t \in Threads : AssignAcquire(t)
    \/ \E t \in Threads : AssignSelect(t)
    \/ \E t \in Threads : AssignUpsert(t)
    \/ \E t \in Threads : AssignUpdateGroups(t)
    \/ \E t \in Threads : AssignCommit(t)

SpecThreads == InitThreads /\ [][NextThreads]_vars

(***************************************************************************)
(* SpecMasters: the BotStorage methods that write the master managers and  *)
(* the groups' master manager, called in any order with any names,         *)
(* callers and clock values.                                               *)
(***************************************************************************)
NextMasters ==
    \/ \E t \in Users, fn \in Names, un \in Names, by \in Users \cup {NULL}, now \in Times :
           CallAddMasterManager(t, fn, un, by, now)
    \/ \E t \in Users : CallRemoveMasterManager(t)
    \/ \E g \in Groups : CallTouchGroup(g, ChatTitle(g), BotClock)
    \/ \E g \in Groups, m \in Users : CallAssignGroupToMaster(g, m)

SpecMasters == Init /\ [][NextMasters]_vars

(***************************************************************************)
(* SpecVault: the BotStorage methods that write the sales managers, with   *)
(* several keys and secrets, on a database in which both groups are on     *)
(* record.                                                                 *)
(***************************************************************************)
NextVault ==
    \/ \E m \in Users, g \in Groups : CallAssignSalesManager(m, g)
    \/ \E m \in Users : CallClearSalesManager(m)
    \/ \E m \in Users, k \in VaultKeys, sec \in VaultSecrets, st \in Statuses :
           CallStoreSalesManagerCredentials(m, k, sec, st)

SpecVault == InitThreads /\ [][NextVault]_vars

(***************************************************************************)
(* SpecRoles: the bot from an empty database, with the commands and the    *)
(* callback that manage roles, groups and credentials.                     *)
(***************************************************************************)
\* The users seen writing in the groups: user 1 in both, user 2 in group -1.
Writers == {<<-1, 1>>, <<-1, 2>>, <<-2, 1>>}

NextRoles ==
    \/ \E c \in {-2, 1}, u \in Users : HandleStart(c, u)
    \/ \E u \in Users, t \in Users : HandleAddMasterManager(u, u, t, NoText, "t1")
    \/ \E u \in Users, t \in Users : HandleRemoveMasterManager(u, u, t)
    \/ \E c \in Groups \cup {1}, u \in Users : HandleListGroupUsers(c, u)
    \/ \E u \in Users, g \in Groups, m \in Users, found \in BOOLEAN :
           HandleAssignSalesManager(u, g, m, found)
    \/ \E c \in {-1, 1, 2}, u \in Users, k \in ApiKeys, resp \in Responses :
           HandleSetApiCredentials(c, u, <<k, "s">>, resp)
    \/ \E u \in Users, args \in ShortArgs : HandleSetApiCredentials(u, u, args, AnswerOk)
    \/ \E w \in Writers, kind \in {"text", "photo"} : HandleGroupActivity(w[1], w[2], kind)
    \/ \E u \in Users : HandleListMasterManagers(u, u)
    \/ HandleHelp(-1, 2)
    \/ \E u \in Users : HandleWhoami(u, u)
    \/ \E c \in {-1, 1}, resp \in GatewayAnswers, data \in ReportData :
           HandleReport(c, 1, resp, data)

SpecRoles == Init /\ [][NextRoles]_vars

(***************************************************************************)
(* SpecOrders: the bot restarted on a database in which user 2 is a master *)
(* manager, both groups are known with both users as members, user 1 is    *)
(* the active sales manager of group -2, and the keyboard shown in group   *)
(* -1 offers user 2.  Conversations and drafts live in memory and start    *)
(* empty.  User 1 places orders in both groups; user 2 is assigned to      *)
(* group -1 and submits credentials.                                       *)
(***************************************************************************)
SetupDB ==
    LET d1 == AddMasterManager(EmptyDB, 2, NoText, NoText, 1, "t1").db
        t1 == TouchGroup(d1, -1, ChatTitle(-1), BotClock)
        d2 == UpsertGroupMember(UpsertGroupMember(t1, -1, 1), -1, 2)
        t2 == TouchGroup(d2, -2, ChatTitle(-2), BotClock)
        d3 == UpsertGroupMember(UpsertGroupMember(t2, -2, 1), -2, 2)
        d4 == AssignGroupToMaster(AssignGroupToMaster(d3, -1, 2), -2, 2)
        d5 == AssignSalesManager(d4, 1, -2).db
    IN  StoreSalesManagerCredentials(d5, 1, "k1", "s", "active")

SetupKeyboards == {<<-1, 2>>}

InitOrders ==
    /\ db = SetupDB
    /\ conv = [k \in Chats \X Users |-> Idle]
    /\ user_data = [u \in Users |-> NoDraft]
    /\ files = {}
    /\ keyboards = SetupKeyboards
    /\ last = Last("init", NULL, NULL, <<>>, "none")
    /\ lock = FreeLock
    /\ pending = [t \in Threads |-> NoCall]
    /\ loop = LoopIdle
    /\ config = DefaultConfig

OrderKeys == {<<-1, 1>>, <<-2, 1>>}

Envs == [lead : GatewayAnswers, upload : GatewayAnswers, notify : BOOLEAN]

\* The runs are followed until MaxOrders order requests have been logged.
LogOpen == Len(db.orders) < MaxOrders

NextOrders ==
    \/ \E g \in Groups, m \in Users, found \in BOOLEAN :
           LogOpen /\ HandleAssignSalesManager(2, g, m, found)
    \/ \E resp \in GatewayAnswers :
           LogOpen /\ HandleSetApiCredentials(2, 2, <<"k1", "s">>, resp)
    \/ \E k \in OrderKeys \cup {<<1, 1>>} : LogOpen /\ HandleOrderStart(k[1], k[2])
    \/ \E k \in OrderKeys, f \in FileIds, cap \in Captions :
           LogOpen /\ HandleOrderPhoto(k[1], k[2], f, cap)
    \/ \E k \in OrderKeys : LogOpen /\ HandleOrderSkipPhoto(k[1], k[2])
    \/ \E k \in OrderKeys, t \in Texts : LogOpen /\ HandleOrderText(k[1], k[2], t)
    \/ \E k \in OrderKeys, t \in Texts, env \in Envs :
           LogOpen /\ HandleOrderUnit(k[1], k[2], t, env)
    \/ \E k \in OrderKeys : LogOpen /\ HandleOrderCancel(k[1], k[2])
    \/ \E f \in files : LogOpen /\ TempFileRemoved(f)

SpecOrders == InitOrders /\ [][NextOrders]_vars

(***************************************************************************)
(* SpecEvents: every kind of update the bot handles, on the database of    *)
(* SpecOrders: the administrator 1 and user 2 manage the master managers,  *)
(* the keyboard of group -1 is asked for and pressed, user 2 submits       *)
(* credentials, and user 1 places an order in group -2.                    *)
(***************************************************************************)
NextEvents ==
    \/ \E u \in Users : LogOpen /\ HandleAddMasterManager(u, u, 2, NoText, "t1")
    \/ \E u \in Users : LogOpen /\ HandleRemoveMasterManager(u, u, 2)
    \/ \E u \in Users : LogOpen /\ HandleListMasterManagers(u, u)
    \/ LogOpen /\ HandleStart(-1, 1)
    \/ LogOpen /\ HandleHelp(-1, 1)
    \/ LogOpen /\ HandleWhoami(2, 2)
    \/ \E resp \in GatewayAnswers : LogOpen /\ HandleReport(-2, 1, resp, "rows")
    \/ \E u \in Users : LogOpen /\ HandleListGroupUsers(-1, u)
    \/ \E u \in Users, found \in BOOLEAN : LogOpen /\ HandleAssignSalesManager(u, -1, 2, found)
    \/ \E resp \in GatewayAnswers : LogOpen /\ HandleSetApiCredentials(2, 2, <<"k1", "s">>, resp)
    \/ LogOpen /\ HandleGroupActivity(-1, 2, "text")
    \/ LogOpen /\ HandleOrderStart(-2, 1)
    \/ \E f \in FileIds, cap \in Captions : LogOpen /\ HandleOrderPhoto(-2, 1, f, cap)
    \/ LogOpen /\ HandleOrderSkipPhoto(-2, 1)
    \/ \E t \in Texts : LogOpen /\ HandleOrderText(-2, 1, t)
    \/ \E t \in Texts, env \in Envs : LogOpen /\ HandleOrderUnit(-2, 1, t, env)
    \/ LogOpen /\ HandleOrderCancel(-2, 1)

SpecEvents == InitOrders /\ [][NextEvents]_vars

(***************************************************************************)
(* SpecTracking: the database of SpecOrders at a time when user 2 has not  *)
(* yet written in group -2.  User 2 writes there and places an order       *)
(* there, and the bot account 3 writes there.                              *)
(***************************************************************************)
TrackingDB == [SetupDB EXCEPT !.members = @ \ {<<-2, 2>>}]

InitTracking ==
    /\ db = TrackingDB
    /\ conv = [k \in Chats \X Users |-> Idle]
    /\ user_data = [u \in Users |-> NoDraft]
    /\ files = {}
    /\ keyboards = SetupKeyboards
    /\ last = Last("init", NULL, NULL, <<>>, "none")
    /\ lock = FreeLock
    /\ pending = [t \in Threads |-> NoCall]
    /\ loop = LoopIdle
    /\ config = DefaultConfig

NextTracking ==
    \/ \E u \in {2} \cup Bots, kind \in {"text", "photo"} :
           LogOpen /\ HandleGroupActivity(-2, u, kind)
    \/ LogOpen /\ HandleOrderStart(-2, 2)
    \/ \E f \in FileIds, cap \in Captions : LogOpen /\ HandleOrderPhoto(-2, 2, f, cap)
    \/ LogOpen /\ HandleOrderSkipPhoto(-2, 2)
    \/ \E t \in Texts : LogOpen /\ HandleOrderText(-2, 2, t)
    \/ \E t \in Texts, env \in Envs : LogOpen /\ HandleOrderUnit(-2, 2, t, env)
    \/ LogOpen /\ HandleOrderCancel(-2, 2)

SpecTracking == InitTracking /\ [][NextTracking]_vars

(***************************************************************************)
(* SpecLoop: the order flow of two operators in group -2, whose sales      *)
(* manager re-submits credentials, with the gateway request of the submit  *)
(* made visible.  The handlers are coroutines of one *)
(* asyncio event loop (the Application is built without concurrent         *)
(* updates) and ERPNextClient calls requests.post in the loop's thread     *)
(* without awaiting or off-loading it; `loop` says whether that thread is  *)
(* inside such a request and for which update.                             *)
(***************************************************************************)
LoopKeys == {<<-2, 1>>, <<-2, 2>>}

\* Faulty variant: the Application built with concurrent_updates.
ConcurrentUpdates == TRUE

\* The thread of the event loop is free to run the handler of the next update.
LoopFree == loop = LoopIdle

\* TRUE when handle_order_unit gets as far as create_lead for user u.
ReachesGateway(d, ud, u) ==
    /\ GetOrderDraft(ud, u) # NoDraft
    /\ GetGroupCredentials(d, GetOrderDraft(ud, u)[1].chat_id) # <<>>
    /\ GetGroupCredentials(d, GetOrderDraft(ud, u)[1].chat_id)[1].status = "active"

\* handle_order_unit up to the moment requests.post is entered for create_lead;
\* when the handler returns before that, it runs to its end.
UnitRequest(c, u, text) ==
    /\ LoopFree
    /\ conv[<<c, u>>] = ORDER_UNIT
    /\ IF ReachesGateway(db, user_data, u)
       THEN /\ user_data' = SetOrderDraft(user_data, u,
                                StoreReply(GetOrderDraft(user_data, u)[1], ORDER_UNIT, text))
            /\ loop' = [call |-> "create_lead", chat |-> c, user |-> u, text |-> text,
                        member |-> NULL]
            /\ UNCHANGED <<db, conv, files, last>>
       ELSE /\ OrderUnitEffect(c, u, text, [lead |-> AnswerOk, upload |-> AnswerOk,
                                            notify |-> TRUE])
            /\ loop' = loop
    /\ UNCHANGED <<keyboards, lock, pending, config>>

\* requests.post returns or raises and handle_order_unit runs to its end.
UnitReturn(env) ==
    /\ loop.call = "create_lead"
    /\ OrderUnitEffect(loop.chat, loop.user, loop.text, env)
    /\ loop' = LoopIdle
    /\ UNCHANGED <<keyboards, lock, pending, config>>

NextLoop ==
    \/ \E k \in LoopKeys : LoopFree /\ LogOpen /\ HandleOrderStart(k[1], k[2])
    \/ \E k \in LoopKeys : LoopFree /\ LogOpen /\ HandleOrderSkipPhoto(k[1], k[2])
    \/ \E k \in LoopKeys, t \in Texts : LoopFree /\ LogOpen /\ HandleOrderText(k[1], k[2], t)
    \/ \E k \in LoopKeys : LoopFree /\ LogOpen /\ HandleOrderCancel(k[1], k[2])
    \/ \E k \in LoopKeys, t \in Texts : LogOpen /\ UnitRequest(k[1], k[2], t)
    \/ \E resp \in GatewayAnswers :
           LoopFree /\ LogOpen /\ HandleSetApiCredentials(1, 1, <<"k1", "s">>, resp)
    \/ \E env \in Envs : UnitReturn(env)

SpecLoop == InitOrders /\ [][NextLoop]_vars

(***************************************************************************)
(* SpecAssign: the assignment callback followed through its await.         *)
(* handle_assign_sales_manager checks is_master_manager, then awaits       *)
(* get_chat_member, then writes.  The Application handles one update at a  *)
(* time (no concurrent_updates, blocking handlers), so while the callback  *)
(* waits, the handler of no other update is started.                       *)
(***************************************************************************)
\* The callback up to the await of get_chat_member; a presser who is no
\* master manager is turned away at once.
AssignPressed(u, chat_id, member_id) ==
    /\ LoopFree
    /\ <<chat_id, member_id>> \in keyboards
    /\ IF ~IsMasterManager(db, u)
       THEN /\ last' = Last("assign_sm", chat_id, u, <<chat_id, member_id>>, "denied")
            /\ loop' = loop
       ELSE /\ last' = last
            /\ loop' = [call |-> "get_chat_member", chat |-> chat_id, user |-> u,
                        text |-> NoText, member |-> member_id]
    /\ UNCHANGED <<db, conv, user_data, files, keyboards>>
    /\ UNCHANGED <<lock, pending, config>>

\* get_chat_member returns or raises and the callback runs to its end.
AssignResumed(found) ==
    /\ loop.call = "get_chat_member"
    /\ AssignEffect(loop.user, loop.chat, loop.member, found)
    /\ loop' = LoopIdle
    /\ UNCHANGED <<conv, user_data, files, keyboards>>
    /\ UNCHANGED <<lock, pending, config>>

NextAssign ==
    \/ \E t \in Users : LoopFree /\ HandleAddMasterManager(1, 1, t, NoText, "t1")
    \/ \E t \in Users : LoopFree /\ HandleRemoveMasterManager(1, 1, t)
    \/ \E g \in Groups, u \in Users : LoopFree /\ HandleListGroupUsers(g, u)
    \/ \E u \in Users, g \in Groups, m \in Users : AssignPressed(u, g, m)
    \/ \E found \in BOOLEAN : AssignResumed(found)

SpecAssign == InitOrders /\ [][NextAssign]_vars

(***************************************************************************)
(* SpecDispatch: the messages of the order conversation (/order, /skip,    *)
(* /cancel, a text, a photo) delivered in every state of a session.  The   *)
(* handlers are all in one group, so an update goes to the first handler   *)
(* that accepts it: the conversation (its entry point first, then the      *)
(* handlers of the session's state, then the fallback), and after it the   *)
(* handler of the group's messages; a command nothing accepts is dropped.  *)
(***************************************************************************)
Kinds == {"/order", "/skip", "/cancel", "text", "photo"}

\* Faulty variant: /skip and /cancel registered without regard to the state.
DispatchCommandsAnywhere(state, chat_type, kind) ==
    IF kind = "/order" THEN "order_start"
    ELSE IF kind = "/skip" THEN "order_skip"
    ELSE IF kind = "/cancel" THEN "order_cancel"
    ELSE IF state = ORDER_PHOTO /\ kind = "photo" THEN "order_photo"
    ELSE IF state \in {ORDER_PHONE, ORDER_NOTES, ORDER_QTY} /\ kind = "text"
    THEN TextStep(state).h
    ELSE IF state = ORDER_UNIT /\ kind = "text" THEN "order_unit"
    ELSE IF chat_type = "group" /\ kind \in {"text", "photo"} THEN "group_activity"
    ELSE "none"

\* The handler that takes a message of the given kind for a session in the
\* given state, "none" when no handler accepts it.
Dispatch(state, chat_type, kind) ==
    IF kind = "/order" THEN "order_start"
    ELSE IF state = ORDER_PHOTO /\ kind = "photo" THEN "order_photo"
    ELSE IF state = ORDER_PHOTO /\ kind = "/skip" THEN "order_skip"
    ELSE IF state \in {ORDER_PHONE, ORDER_NOTES, ORDER_QTY} /\ kind = "text"
    THEN TextStep(state).h
    ELSE IF state = ORDER_UNIT /\ kind = "text" THEN "order_unit"
    ELSE IF state \in InFlight /\ kind = "/cancel" THEN "order_cancel"
    ELSE IF chat_type = "group" /\ kind \in {"text", "photo"} THEN "group_activity"
    ELSE "none"

\* An update that no handler accepts: nothing runs.
Unhandled(c, u, kind) ==
    /\ last' = Last("unhandled", c, u, <<kind, conv[<<c, u>>]>>, "none")
    /\ UNCHANGED <<db, conv, user_data, files, keyboards>>
    /\ UNCHANGED <<lock, pending, loop, config>>

\* TRUE when a message of the given kind in session (c, u) goes to handler h.
Takes(c, u, kind, h) == Dispatch(conv[<<c, u>>], ChatType(c), kind) = h

DispatchKeys == {<<-2, 1>>, <<1, 1>>}

NextDispatch ==
    \/ \E k \in DispatchKeys, kind \in Kinds :
           LogOpen /\ Takes(k[1], k[2], kind, "order_start") /\ HandleOrderStart(k[1], k[2])
    \/ \E k \in DispatchKeys, kind \in Kinds, f \in FileIds, cap \in Captions :
           LogOpen /\ Takes(k[1], k[2], kind, "order_photo")
                   /\ HandleOrderPhoto(k[1], k[2], f, cap)
    \/ \E k \in DispatchKeys, kind \in Kinds :
           LogOpen /\ Takes(k[1], k[2], kind, "order_skip")
                   /\ HandleOrderSkipPhoto(k[1], k[2])
    \/ \E k \in DispatchKeys, kind \in Kinds, t \in Texts,
          h \in {"order_phone", "order_notes", "order_quantity"} :
           LogOpen /\ Takes(k[1], k[2], kind, h) /\ HandleOrderText(k[1], k[2], t)
    \/ \E k \in DispatchKeys, kind \in Kinds, t \in Texts, env \in Envs :
           LogOpen /\ Takes(k[1], k[2], kind, "order_unit")
                   /\ HandleOrderUnit(k[1], k[2], t, env)
    \/ \E k \in DispatchKeys, kind \in Kinds :
           LogOpen /\ Takes(k[1], k[2], kind, "order_cancel")
                   /\ HandleOrderCancel(k[1], k[2])
    \/ \E k \in DispatchKeys, kind \in Kinds :
           LogOpen /\ Takes(k[1], k[2], kind, "group_activity")
                   /\ HandleGroupActivity(k[1], k[2], kind)
    \/ \E k \in DispatchKeys, kind \in Kinds :
           LogOpen /\ Takes(k[1], k[2], kind, "none") /\ Unhandled(k[1], k[2], kind)

SpecDispatch == InitOrders /\ [][NextDispatch]_vars

(***************************************************************************)
(* SpecSubmit: the order flow of one session under both values of the      *)
(* deployment's attach_order_photo setting, with every answer of the       *)
(* gateway and a staged file that can disappear from the temporary         *)
(* directory.                                                              *)
(***************************************************************************)
Configs == [attach_order_photo : BOOLEAN]

InitSubmit ==
    /\ db = SetupDB
    /\ conv = [k \in Chats \X Users |-> Idle]
    /\ user_data = [u \in Users |-> NoDraft]
    /\ files = {}
    /\ keyboards = SetupKeyboards
    /\ last = Last("init", NULL, NULL, <<>>, "none")
    /\ lock = FreeLock
    /\ pending = [t \in Threads |-> NoCall]
    /\ loop = LoopIdle
    /\ config \in Configs

\* create_lead is answered in every way the server can; the upload as in Envs.
SubmitEnvs == [lead : Responses, upload : GatewayAnswers, notify : BOOLEAN]

NextSubmit ==
    \/ LogOpen /\ HandleOrderStart(-2, 1)
    \/ \E f \in FileIds, cap \in Captions : LogOpen /\ HandleOrderPhoto(-2, 1, f, cap)
    \/ LogOpen /\ HandleOrderSkipPhoto(-2, 1)
    \/ \E t \in Texts : LogOpen /\ HandleOrderText(-2, 1, t)
    \/ \E t \in Texts, env \in SubmitEnvs : LogOpen /\ HandleOrderUnit(-2, 1, t, env)
    \/ LogOpen /\ HandleOrderCancel(-2, 1)
    \/ \E f \in files : LogOpen /\ TempFileRemoved(f)

SpecSubmit == InitSubmit /\ [][NextSubmit]_vars

(***************************************************************************)
(* Properties.                                                             *)
(***************************************************************************)
\* The pairs (group, sales manager) that either table records as bound.
Bound(d) ==
    {<<d.managers[m].group_chat_id, m>> : m \in DOMAIN d.managers}
    \cup {<<g, d.groups[g].sales_manager_id>> :
             g \in {x \in DOMAIN d.groups : d.groups[x].sales_manager_id # NULL}}

\* C1: after any sequence of storage calls (assign_sales_manager,
\* clear_sales_manager, store_sales_manager_credentials, touch_group, the
\* master-manager methods) the binding between groups and sales managers is
\* one-to-one: a group has at most one bound sales manager and a sales manager
\* is bound to at most one group, whichever table records the binding.
C1_BindingOneToOne ==
    \A p \in Bound(db), q \in Bound(db) :
        (p[1] = q[1] \/ p[2] = q[2]) => p = q

\* C1 witness: the last call tried to bind a second sales manager to a group
\* that has one; it was refused and the group keeps its one sales manager.
C1_Witness ==
    /\ last.h = "assign_sales_manager"
    /\ last.out = "IntegrityError"
    /\ ~HasManager(db, last.user)
    /\ \E m \in DOMAIN db.managers : Bound(db) = {<<last.chat, m>>}

\* C2: when operator X is already the sales manager of group A, the callback
\* that assigns X to another group B is answered with the domain error of
\* assign_sales_manager (or is turned away before the call because the presser
\* is no master manager or X is not found in the chat), and no stored record
\* changes: X stays bound to A with the same status and credentials.
C2_RebindRejected ==
    [][(/\ last'.h = "assign_sm"
        /\ HasManager(db, last'.arg[2])
        /\ db.managers[last'.arg[2]].group_chat_id # last'.arg[1])
       => /\ db' = db
          /\ last'.out \in {"conflict", "denied", "not_found"}
          /\ (IsMasterManager(db, last'.user) => last'.out \in {"conflict", "not_found"})]_vars

\* C2 witness: an active sales manager with credentials was refused for a
\* second group and is still bound to the first.
C2_Witness ==
    /\ last.h = "assign_sm"
    /\ last.out = "conflict"
    /\ HasManager(db, last.arg[2])
    /\ db.managers[last.arg[2]].status = "active"
    /\ db.managers[last.arg[2]].encrypted_api_key # NoToken
    /\ db.managers[last.arg[2]].group_chat_id # last.arg[1]

\* TRUE when the gateway's answer to the validation request is a success.
GatewayOk(resp) == ~resp.exc /\ resp.status_code < 400

\* The row of sales manager m as a sequence: <<>> when there is none.
ManagerRow(d, m) == IF HasManager(d, m) THEN <<d.managers[m]>> ELSE <<>>

\* C3: a sales manager's status becomes active, or the credentials of an
\* active sales manager change, only in a /set_api step of that manager whose
\* validation request the gateway answered with success; and the credentials
\* stored with status active are the pair submitted in that step.
C3_ActiveOnlyByValidation ==
    [][\A m \in Users :
          (/\ HasManager(db', m)
           /\ db'.managers[m].status = "active"
           /\ ManagerRow(db, m) # ManagerRow(db', m))
          => /\ last'.h = "set_api"
             /\ last'.user = m
             /\ ChatType(last'.chat) = "private"
             /\ GatewayOk(last'.arg[3])
             /\ db'.managers[m].encrypted_api_key = Encrypt(last'.arg[1])
             /\ db'.managers[m].encrypted_api_secret = Encrypt(last'.arg[2])]_vars

\* C3 witness: a /set_api step validated the pair and the sender is active.
C3_Witness ==
    /\ last.h = "set_api"
    /\ last.out = "validated"
    /\ HasManager(db, last.user)
    /\ db.managers[last.user].status = "active"
    /\ Decrypt(db.managers[last.user].encrypted_api_key) = last.arg[1]

\* TRUE when group c records a sales manager whose row has status active.
ActiveManagerBound(d, c) ==
    /\ c \in DOMAIN d.groups
    /\ d.groups[c].sales_manager_id \in DOMAIN d.managers
    /\ d.managers[d.groups[c].sales_manager_id].status = "active"

\* C4: /order in a group chat whose bound sales manager is active moves the
\* session to ORDER_PHOTO and creates a fresh draft for (chat, user); in every
\* other case (private chat, no sales manager, sales manager not active) no
\* draft is created or changed and an idle session stays idle.
C4_StartOnlyWhenActive ==
    [][last'.h = "order_start" =>
          LET c == last'.chat
              u == last'.user
          IN  IF ChatType(c) = "group" /\ ActiveManagerBound(db, c)
              THEN /\ conv'[<<c, u>>] = ORDER_PHOTO
                   /\ user_data'[u] = <<OrderDraft(c, u)>>
              ELSE /\ user_data' = user_data
                   /\ (conv[<<c, u>>] = Idle => conv'[<<c, u>>] = Idle)]_vars

\* C4 witness: /order was taken in a group with an active sales manager and the draft exists.
C4_Witness ==
    /\ last.h = "order_start"
    /\ last.out = "started"
    /\ conv[<<last.chat, last.user>>] = ORDER_PHOTO
    /\ user_data[last.user] = <<OrderDraft(last.chat, last.user)>>

\* TRUE when group c records a sales manager whose row is awaiting credentials.
AwaitingManagerBound(d, c) ==
    /\ c \in DOMAIN d.groups
    /\ d.groups[c].sales_manager_id \in DOMAIN d.managers
    /\ d.managers[d.groups[c].sales_manager_id].status = "awaiting_api"

\* C5: /order in a group whose sales manager is awaiting credentials is
\* refused and mutates nothing: the tables, the conversation state of every
\* session (one in flight for the same operator included), every draft and
\* every staged file are as before.
C5_RefusedStartMutatesNothing ==
    [][(last'.h = "order_start" /\ AwaitingManagerBound(db, last'.chat))
       => /\ last'.out \in {"no_manager", "not_active"}
          /\ db' = db
          /\ conv' = conv
          /\ user_data' = user_data
          /\ files' = files]_vars

\* TRUE when the gateway's answer lets create_lead return.
LeadAccepted(resp) == ~resp.exc /\ resp.status_code < 400 /\ resp.json

\* C6: the last step of the flow start, skip, phone, notes, quantity, unit.
\* When the unit reply arrives in ORDER_UNIT for the session's own draft, which
\* has no photo, the group's sales manager is active, the gateway accepts the
\* lead and the sales manager can be notified, exactly one order request is
\* appended (for this chat, requester and sales manager, carrying the draft's
\* trimmed fields), the session is idle again, the draft is gone and no file
\* has been staged or left.
C6_FullFlowLogsOneOrder ==
    [][(/\ last'.h = "order_unit"
        /\ conv[<<last'.chat, last'.user>>] = ORDER_UNIT
        /\ user_data[last'.user] # NoDraft
        /\ user_data[last'.user][1].chat_id = last'.chat
        /\ user_data[last'.user][1].photo_path = NoPath
        /\ ActiveManagerBound(db, last'.chat)
        /\ LeadAccepted(last'.arg[2].lead)
        /\ last'.arg[2].notify)
       => LET c == last'.chat
              u == last'.user
              draft == user_data[u][1]
              n == Len(db.orders)
          IN  /\ Len(db'.orders) = n + 1
              /\ SubSeq(db'.orders, 1, n) = db.orders
              /\ db'.orders[n + 1].chat_id = c
              /\ db'.orders[n + 1].requester_id = u
              /\ db'.orders[n + 1].sales_manager_id = db.groups[c].sales_manager_id
              /\ db'.orders[n + 1].status = "created"
              /\ db'.orders[n + 1].payload =
                     [phone |-> draft.phone, notes |-> draft.notes,
                      quantity |-> draft.quantity, unit |-> <<Strip(last'.arg[1])>>,
                      attachment |-> "none"]
              /\ [db' EXCEPT !.orders = db.orders] = db
              /\ conv'[<<c, u>>] = Idle
              /\ user_data'[u] = NoDraft
              /\ files' = files]_vars

\* C6 witness: the unit reply was submitted; the log holds the one order with
\* the trimmed replies and no attachment, the session is idle, no draft and no
\* staged file exist.
C6_Witness ==
    /\ last.h = "order_unit"
    /\ last.out = "submitted"
    /\ Len(db.orders) = 1
    /\ db.orders[1].chat_id = last.chat
    /\ db.orders[1].payload =
           [phone |-> <<<<"a">>>>, notes |-> <<<<"a">>>>, quantity |-> <<<<"a">>>>,
            unit |-> <<<<"a">>>>, attachment |-> "none"]
    /\ conv[<<last.chat, last.user>>] = Idle
    /\ user_data[last.user] = NoDraft
    /\ files = {}

\* C7: every way out of an order leaves no draft and no staged file of it:
\* a unit reply that finds a draft (submitted, aborted because the sales
\* manager is gone or not active, refused by the gateway, or failing with any
\* other error) and a cancel both end with the operator's draft removed and
\* the draft's staged photo deleted.
C7_DraftDestroyedOnEveryExit ==
    [][(/\ last'.h \in {"order_unit", "order_cancel"}
        /\ user_data[last'.user] # NoDraft)
       => /\ user_data'[last'.user] = NoDraft
          /\ \A f \in files' : user_data[last'.user][1].photo_path # <<f>>]_vars

\* C8: /order taken while the session is in flight with a draft of its own
\* whose photo is staged replaces the draft by a fresh one and the staged file
\* of the old draft is deleted, so that no staged file is left without a draft.
C8_ReentryReleasesOldDraft ==
    [][(/\ last'.h = "order_start"
        /\ last'.out = "started"
        /\ conv[<<last'.chat, last'.user>>] \in InFlight
        /\ user_data[last'.user] # NoDraft
        /\ user_data[last'.user][1].chat_id = last'.chat
        /\ user_data[last'.user][1].photo_path # NoPath)
       => /\ user_data'[last'.user] = <<OrderDraft(last'.chat, last'.user)>>
          /\ user_data[last'.user][1].photo_path[1] \notin files']_vars

\* The draft of the session (c, u): <<>> when the session has none.
DraftOf(ud, c, u) ==
    IF ud[u] # NoDraft /\ ud[u][1].chat_id = c THEN ud[u] ELSE NoDraft

OrderHandlers ==
    {"order_start", "order_photo", "order_skip", "order_phone", "order_notes",
     "order_quantity", "order_unit", "order_cancel"}

\* C9: an update of the order conversation handled for one session key leaves
\* the draft of every session with another key as it was, the sessions of the
\* same operator in two chats included.
C9_SessionsIsolated ==
    [][\A k \in Chats \X Users :
          (last'.h \in OrderHandlers /\ <<last'.chat, last'.user>> # k)
          => DraftOf(user_data', k[1], k[2]) = DraftOf(user_data, k[1], k[2])]_vars

\* C10: /cancel is taken in every in-flight state and leaves the session idle
\* with no draft and no staged photo file of the session, whether or not the
\* staged file was still there.
C10_CancelDiscardsEverything ==
    [][last'.h = "order_cancel"
       => /\ conv[<<last'.chat, last'.user>>] \in InFlight
          /\ last'.out = "cancelled"
          /\ conv'[<<last'.chat, last'.user>>] = Idle
          /\ user_data'[last'.user] = NoDraft
          /\ \A f \in files' : ~(f[1] = last'.chat /\ f[2] = last'.user)]_vars

\* C11: /order sent right after the session's /cancel, in a group whose sales
\* manager is active, puts the session in ORDER_PHOTO with a draft of this chat
\* and user whose photo, caption, phone, notes, quantity and unit are all
\* empty, whatever the cancelled draft held.
C11_FreshDraftAfterCancel ==
    [][(/\ last.h = "order_cancel"
        /\ last'.h = "order_start"
        /\ last'.chat = last.chat
        /\ last'.user = last.user
        /\ ActiveManagerBound(db, last'.chat))
       => /\ conv'[<<last'.chat, last'.user>>] = ORDER_PHOTO
          /\ user_data'[last'.user] # NoDraft
          /\ LET draft == user_data'[last'.user][1] IN
             /\ draft.chat_id = last'.chat
             /\ draft.requester_id = last'.user
             /\ draft.photo_path = NoPath
             /\ draft.photo_caption = NoText
             /\ draft.phone = NoText
             /\ draft.notes = NoText
             /\ draft.quantity = NoText
             /\ draft.unit = NoText]_vars

\* C11 witness: the session was cancelled after the phone and before the
\* notes, /order was taken right after, and the session waits for the photo
\* with an empty draft.
C11_Witness ==
    /\ last.h = "order_start"
    /\ last.arg = <<"after_cancel", ORDER_NOTES>>
    /\ last.out = "started"
    /\ conv[<<last.chat, last.user>>] = ORDER_PHOTO
    /\ user_data[last.user] # NoDraft
    /\ user_data[last.user][1].phone = NoText
    /\ user_data[last.user][1].photo_path = NoPath

\* C12: a privileged command from a caller below its role is turned away and
\* does nothing else: /add_master_manager, /remove_master_manager and
\* /list_master_managers from a user who is no administrator, /users and the
\* assign_sm callback from a user who is no master manager are answered with
\* the denial (/users outside a group with the group-only refusal), every
\* table, keyboard, session and file is as before, and no gateway method was
\* called.
C12_DeniedWithoutSideEffect ==
    [][(\/ /\ last'.h \in {"add_master_manager", "remove_master_manager",
                         "list_master_managers"}
          /\ last'.user \notin ADMIN_IDS
        \/ /\ last'.h \in {"users", "assign_sm"}
          /\ last'.user \notin DOMAIN db.masters)
       => /\ last'.out \in IF last'.h = "users" THEN {"denied", "group_only"}
                           ELSE {"denied"}
          /\ (last'.h = "users" /\ ChatType(last'.chat) = "group" => last'.out = "denied")
          /\ last'.calls = <<>>
          /\ UNCHANGED <<db, conv, user_data, files, keyboards>>]_vars

\* C12 witness: a user who is no master manager pressed an assign_sm button of
\* a keyboard while master managers, groups and members are on record, and
\* was denied.
C12_Witness ==
    /\ last.h = "assign_sm"
    /\ last.out = "denied"
    /\ last.user \notin DOMAIN db.masters
    /\ DOMAIN db.masters # {}
    /\ last.arg[1] \in DOMAIN db.groups
    /\ ~HasManager(db, last.arg[2])

\* The sales managers with the group each is bound to.
ManagerBindings(d) == [m \in DOMAIN d.managers |-> d.managers[m].group_chat_id]

\* C13: roles change only by the explicit commands.  The set of master
\* managers changes only in an /add_master_manager or /remove_master_manager
\* step of an administrator; the set of sales managers and the bindings
\* between groups and sales managers change only in an assign_sm callback
\* step of a master manager.  No other update (start, help, whoami, report,
\* users, the order flow, set_api, group activity) changes them.
C13_NoImplicitRoleChange ==
    [][/\ (DOMAIN db'.masters # DOMAIN db.masters
           => /\ last'.h \in {"add_master_manager", "remove_master_manager"}
              /\ last'.user \in ADMIN_IDS)
       /\ ((ManagerBindings(db') # ManagerBindings(db) \/ Bound(db') # Bound(db))
           => /\ last'.h = "assign_sm"
              /\ last'.user \in DOMAIN db.masters)]_vars

\* C13 witness: a master manager who is no administrator made user 2 the
\* sales manager of group -1 by the callback.
C13_Witness ==
    /\ last.h = "assign_sm"
    /\ last.out = "assigned"
    /\ last.user \in DOMAIN db.masters
    /\ last.user \notin ADMIN_IDS
    /\ ManagerBindings(db) = (1 :> -2 @@ 2 :> -1)

\* C14: add_master_manager is an idempotent upsert.  It returns True exactly
\* when the id had no row; afterwards the id has its one row, whose full_name
\* and username are those of this call and whose added_by and created_at are
\* those of the call that created the row; no other row and no group changes.
C14_AddMasterManagerUpsert ==
    [][last'.h = "add_master_manager" =>
          LET t == last'.user
              existed == t \in DOMAIN db.masters
          IN  /\ (last'.out = "True") = ~existed
              /\ last'.out \in {"True", "False"}
              /\ DOMAIN db'.masters = DOMAIN db.masters \cup {t}
              /\ db'.masters[t].full_name = last'.arg[1]
              /\ db'.masters[t].username = last'.arg[2]
              /\ db'.masters[t].added_by =
                     IF existed THEN db.masters[t].added_by ELSE last'.arg[3]
              /\ db'.masters[t].created_at =
                     IF existed THEN db.masters[t].created_at ELSE last'.arg[4]
              /\ \A o \in DOMAIN db.masters \ {t} : db'.masters[o] = db.masters[o]
              /\ [db' EXCEPT !.masters = db.masters] = db]_vars

\* C14 witness: an id was added again with another name, caller and clock
\* value; the call returned False and the row shows the new name with the
\* first caller and creation time.
C14_Witness ==
    /\ last.h = "add_master_manager"
    /\ last.out = "False"
    /\ last.user \in DOMAIN db.masters
    /\ db.masters[last.user].full_name = last.arg[1]
    /\ db.masters[last.user].full_name # NoText
    /\ db.masters[last.user].added_by # last.arg[3]
    /\ db.masters[last.user].created_at # last.arg[4]

\* TRUE when every group's master manager is empty or has a row.
MasterBindingsValid(d) ==
    \A g \in DOMAIN d.groups :
        \/ d.groups[g].sales_master_manager_id = NULL
        \/ d.groups[g].sales_master_manager_id \in DOMAIN d.masters

\* C15: in every state the bot reaches, each group's master manager is empty
\* or the id of a master manager on record; and the /remove_master_manager of
\* an administrator deletes the target's row, empties the master manager of
\* exactly the groups that named the target, and leaves every group's sales
\* manager, every other master manager and the sales managers as they were.
C15_RemoveClearsGroupBindings ==
    /\ []MasterBindingsValid(db)
    /\ [][(last'.h = "remove_master_manager" /\ last'.out = "removed")
          => LET t == last'.arg[1] IN
             /\ DOMAIN db'.masters = DOMAIN db.masters \ {t}
             /\ \A o \in DOMAIN db'.masters : db'.masters[o] = db.masters[o]
             /\ DOMAIN db'.groups = DOMAIN db.groups
             /\ \A g \in DOMAIN db.groups :
                    /\ db'.groups[g].sales_manager_id = db.groups[g].sales_manager_id
                    /\ db'.groups[g].sales_master_manager_id =
                           IF db.groups[g].sales_master_manager_id = t
                           THEN NULL
                           ELSE db.groups[g].sales_master_manager_id
             /\ db'.managers = db.managers
             /\ db'.members = db.members
             /\ db'.orders = db.orders]_vars

\* C15 witness: a master manager was removed; a group that has a sales
\* manager, hence was once claimed by a master manager through /users, has no
\* master manager now and keeps its sales manager.
C15_Witness ==
    /\ last.h = "remove_master_manager"
    /\ last.out = "removed"
    /\ last.arg[1] \notin DOMAIN db.masters
    /\ \E g \in DOMAIN db.groups :
           /\ db.groups[g].sales_master_manager_id = NULL
           /\ db.groups[g].sales_manager_id # NULL

Conflicting(a, b) ==
    \/ a.telegram_id = b.telegram_id /\ a.group_chat_id # b.group_chat_id
    \/ a.telegram_id # b.telegram_id /\ a.group_chat_id = b.group_chat_id

\* C17: the check and the writes of assign_sales_manager are one atomic unit.
\* Whenever no call is between its statements the binding is one-to-one; two
\* calls that have both returned and conflict have not both succeeded; and a
\* call that returns has changed the tables exactly as the whole method
\* applied to the tables it found when it took the lock, and raised the same.
C17_AssignAtomic ==
    /\ []((\A t \in Threads : pending[t].pc \in {"idle", "lock", "done"})
          => \A p \in Bound(db), q \in Bound(db) :
                 (p[1] = q[1] \/ p[2] = q[2]) => p = q)
    /\ [](\A t \in Threads, o \in Threads :
             (/\ t # o
              /\ pending[t].pc = "done"
              /\ pending[o].pc = "done"
              /\ Conflicting(pending[t], pending[o]))
             => ~(pending[t].raised = "none" /\ pending[o].raised = "none"))
    /\ [][\A t \in Threads :
             (pending[t].pc # "done" /\ pending'[t].pc = "done")
             => LET r == AssignSalesManager(pending[t].snapshot[1],
                                            pending[t].telegram_id,
                                            pending[t].group_chat_id)
                IN  /\ db' = r.db
                    /\ pending'[t].raised = r.raised]_vars

\* C17 witness: thread T1 holds the lock, has passed the check and written the
\* sales manager row but not yet the group, while thread T2 waits for the lock
\* with a call for the same operator and the other group.
C17_Witness ==
    /\ lock = "T1"
    /\ pending["T1"].pc = "update_groups"
    /\ pending["T2"].pc = "lock"
    /\ pending["T1"].telegram_id = pending["T2"].telegram_id
    /\ pending["T1"].group_chat_id # pending["T2"].group_chat_id
    /\ HasManager(db, pending["T1"].telegram_id)

C19_GroupCredentialsCases ==
    \A c \in Chats :
        LET nothing ==
                \/ c \notin DOMAIN db.groups
                \/ db.groups[c].sales_manager_id = NULL
                \/ db.managers[db.groups[c].sales_manager_id].encrypted_api_key = NoToken
                \/ db.managers[db.groups[c].sales_manager_id].encrypted_api_secret = NoToken
        IN  IF nothing
            THEN GetGroupCredentials(db, c) = <<>>
            ELSE LET m == db.groups[c].sales_manager_id IN
                 GetGroupCredentials(db, c) =
                     <<[telegram_id |-> m,
                        api_key |-> db.managers[m].encrypted_api_key[2],
                        api_secret |-> db.managers[m].encrypted_api_secret[2],
                        status |-> db.managers[m].status]>>

\* C19 witness: one group has a sales manager awaiting credentials with a
\* stored pair, which is returned; the other group has a sales manager
\* without a pair, for which nothing is returned.
C19_Witness ==
    /\ GetGroupCredentials(db, -1) # <<>>
    /\ GetGroupCredentials(db, -1)[1].status = "awaiting_api"
    /\ -2 \in DOMAIN db.groups
    /\ db.groups[-2].sales_manager_id # NULL
    /\ GetGroupCredentials(db, -2) = <<>>

\* C20: a /set_api whose validation the gateway does not confirm (transport
\* failure, 401, another error status) leaves the sales manager as it was:
\* the stored credentials and the status are unchanged.
C20_FailedValidationKeepsState ==
    [][(last'.h = "set_api" /\ ~GatewayOk(last'.arg[3])) => db' = db]_vars

\* C21: a unit reply whose handling ends in an exception that nothing but the
\* error handler catches (the message to the sales manager cannot be sent, or
\* the staged file cannot be read for the upload) still releases the draft and
\* its staged photo, and the session is not left in ORDER_UNIT, where the next
\* text reply would submit the same draft again.
C21_FailedSubmitReleasesDraft ==
    [][(/\ last'.h = "order_unit"
        /\ last'.out \in {"notify_failed", "upload_crashed"})
       => /\ user_data'[last'.user] = NoDraft
          /\ \A f \in files' : user_data[last'.user][1].photo_path # <<f>>
          /\ conv'[<<last'.chat, last'.user>>] # ORDER_UNIT]_vars

\* C22: /set_api does something only in a private chat, with two arguments,
\* for a sender who has a sales manager row.  Sent in a group chat, with fewer
\* than two arguments, or by a user without a sales manager row, it is
\* answered with the matching refusal, calls no gateway method and changes no
\* table.
C22_SetApiOnlyForManagerInPrivate ==
    [][(/\ last'.h = "set_api"
        /\ \/ ChatType(last'.chat) # "private"
           \/ last'.arg[2] = ""
           \/ ~HasManager(db, last'.user))
       => /\ last'.out \in {"private_only", "usage", "not_assigned"}
          /\ last'.calls = <<>>
          /\ db' = db]_vars

\* C22 witness: a sales manager sent /set_api with the key alone in the
\* private chat and got the usage line; the row still has no credentials.
C22_Witness ==
    /\ last.h = "set_api"
    /\ last.out = "usage"
    /\ last.arg[1] = "k1"
    /\ last.arg[2] = ""
    /\ HasManager(db, last.user)
    /\ db.managers[last.user].encrypted_api_key = NoToken

\* TRUE when group c records a sales manager whose row holds a key and a
\* secret and has status active.
ActiveWithCredentials(d, c) ==
    /\ ActiveManagerBound(d, c)
    /\ d.managers[d.groups[c].sales_manager_id].encrypted_api_key # NoToken
    /\ d.managers[d.groups[c].sales_manager_id].encrypted_api_secret # NoToken

\* C23: /report calls the gateway (fetch_report, once) exactly when it is sent
\* in a group chat whose sales manager has stored credentials and status
\* active; in every other case it is answered with a refusal and calls no
\* gateway method; and in all cases no table changes.
C23_ReportOnlyWhenActive ==
    [][last'.h = "report" =>
          /\ db' = db
          /\ IF ChatType(last'.chat) = "group" /\ ActiveWithCredentials(db, last'.chat)
             THEN /\ last'.calls = <<"fetch_report">>
                  /\ last'.out \in {"ERPNextError", "empty", "rows"}
             ELSE /\ last'.calls = <<>>
                  /\ last'.out \in {"group_only", "no_manager", "not_active"}]_vars

\* C23 witness: /report was sent in a group whose sales manager has a stored
\* pair but is awaiting validation; it was refused without a gateway call.
C23_Witness ==
    /\ last.h = "report"
    /\ last.out = "not_active"
    /\ last.calls = <<>>
    /\ AwaitingManagerBound(db, last.chat)
    /\ db.managers[db.groups[last.chat].sales_manager_id].encrypted_api_key # NoToken

\* C24: validate_credentials returns a result for every answer of the server
\* and never raises; ok is False for a transport failure, for status 401 and
\* for every other status of 400 or above, and True for every other answer,
\* a success status with a body that cannot be parsed included.
C24_ValidateCredentialsCases ==
    last.h = "validate_credentials" =>
        LET resp == last.arg[1] IN
        /\ last.out \in {"True", "False"}
        /\ (last.out = "False") <=>
               (resp.exc \/ resp.status_code = 401 \/ resp.status_code >= 400)
        /\ (~resp.exc /\ resp.status_code < 400 /\ ~resp.json) => last.out = "True"

\* C24 witness: the server answered 204 with a body that is no JSON and the
\* credentials passed.
C24_Witness ==
    /\ last.h = "validate_credentials"
    /\ ~last.arg[1].exc
    /\ last.arg[1].status_code = 204
    /\ ~last.arg[1].json
    /\ last.out = "True"

\* C25: a gateway request of one session does not stall the others.  While the
\* create_lead request made for one session key is outstanding, an update for
\* another session key (an /order, which the bot handles in every state of
\* that session) can be handled.
C25_OtherSessionsNotStalled ==
    \A k \in LoopKeys :
        (loop.call = "create_lead" /\ <<loop.chat, loop.user>> # k)
        => ENABLED (LoopFree /\ HandleOrderStart(k[1], k[2]))

\* The handlers that take a message that is no command: the catch-all of the
\* groups and the photo and text steps of the order conversation.
MessageHandlers ==
    {"group_activity", "order_photo", "order_phone", "order_notes", "order_quantity",
     "order_unit"}

\* C26: after the bot has handled a group message that is no command, sent by
\* a user who is no bot, the user is on record as a member of the group, the
\* photos and text replies of an order flow included; and a message of a bot
\* account leaves the members as they were.
C26_EveryGroupMessageTracked ==
    [][/\ (/\ last'.h \in MessageHandlers
           /\ ChatType(last'.chat) = "group"
           /\ last'.user \notin Bots)
          => <<last'.chat, last'.user>> \in db'.members
       /\ (last'.h = "group_activity" /\ last'.user \in Bots)
          => db'.members = db.members]_vars

\* The order request as it was logged: the row without its status and
\* updated_at.
LoggedPart(row) ==
    [id |-> row.id, chat_id |-> row.chat_id, requester_id |-> row.requester_id,
     payload |-> row.payload, sales_manager_id |-> row.sales_manager_id,
     created_at |-> row.created_at]

\* C27: the log of order requests only grows and only statuses change.  The
\* ids are unique in every state; no storage call removes a row or changes
\* the logged part of a row; log_order_request appends one row with a new id,
\* which it returns, and leaves every row there as it was;
\* update_order_status(id, status) sets the status and updated_at of the row
\* with that id, leaves every other row and the number of rows as they were,
\* and changes nothing when no row has the id; every other call leaves the
\* log as it was.
C27_LogAppendOnly ==
    /\ [](\A i \in DOMAIN db.orders, j \in DOMAIN db.orders :
             db.orders[i].id = db.orders[j].id => i = j)
    /\ [][/\ Len(db'.orders) >= Len(db.orders)
          /\ \A i \in DOMAIN db.orders :
                 LoggedPart(db'.orders[i]) = LoggedPart(db.orders[i])
          /\ (last'.h = "log_order_request"
              => LET n == Len(db.orders) IN
                 /\ Len(db'.orders) = n + 1
                 /\ SubSeq(db'.orders, 1, n) = db.orders
                 /\ db'.orders[n + 1] =
                        [id |-> last'.arg[6], chat_id |-> last'.chat,
                         requester_id |-> last'.user, payload |-> last'.arg[1],
                         sales_manager_id |-> last'.arg[2], status |-> last'.arg[3],
                         created_at |-> last'.arg[4], updated_at |-> last'.arg[5]]
                 /\ \A i \in DOMAIN db.orders : db.orders[i].id # last'.arg[6]
                 /\ [db' EXCEPT !.orders = db.orders] = db)
          /\ (last'.h = "update_order_status"
              => /\ Len(db'.orders) = Len(db.orders)
                 /\ \A i \in DOMAIN db.orders :
                        db'.orders[i] =
                            IF db.orders[i].id = last'.arg[1]
                            THEN [db.orders[i] EXCEPT !.status = last'.arg[2],
                                                      !.updated_at = last'.arg[3]]
                            ELSE db.orders[i]
                 /\ ((\A i \in DOMAIN db.orders : db.orders[i].id # last'.arg[1])
                     => db' = db)
                 /\ [db' EXCEPT !.orders = db.orders] = db)
          /\ (last'.h \notin {"log_order_request", "update_order_status"}
              => db'.orders = db.orders)]_vars

\* C27 witness: two requests are logged and update_order_status has set the
\* first one to done at a later clock value; the second one is as logged.
C27_Witness ==
    /\ last.h = "update_order_status"
    /\ last.arg = <<1, "done", "t2">>
    /\ Len(db.orders) = 2
    /\ db.orders[1].status = "done"
    /\ db.orders[1].updated_at = "t2"
    /\ db.orders[1].created_at = "t1"
    /\ db.orders[2].status = "pending"
    /\ db.orders[2].updated_at = "t1"

\* C28: touch_group(chat, title) creates the group's row when there is none:
\* with the title, no master manager, no sales manager and the clock value as
\* created_at.  When the row exists, a title of None leaves the stored title,
\* any other title replaces it, and the row's master manager, sales manager
\* and created_at stay.  No other group and no other table changes.
C28_TouchGroupNonDestructive ==
    [][last'.h = "touch_group" =>
          LET g == last'.chat
              title == last'.arg[1]
          IN  /\ DOMAIN db'.groups = DOMAIN db.groups \cup {g}
              /\ IF g \in DOMAIN db.groups
                 THEN /\ db'.groups[g].title =
                             IF title = NoText THEN db.groups[g].title ELSE title
                      /\ db'.groups[g].sales_master_manager_id =
                             db.groups[g].sales_master_manager_id
                      /\ db'.groups[g].sales_manager_id = db.groups[g].sales_manager_id
                      /\ db'.groups[g].created_at = db.groups[g].created_at
                 ELSE db'.groups[g] =
                          [title |-> title, sales_master_manager_id |-> NULL,
                           sales_manager_id |-> NULL, created_at |-> last'.arg[2]]
              /\ \A o \in DOMAIN db.groups \ {g} : db'.groups[o] = db.groups[o]
              /\ [db' EXCEPT !.groups = db.groups] = db]_vars

\* C28 witness: a group with a title, a master manager and a sales manager,
\* created at t1, was touched at t2 with no title and has all four as before.
C28_Witness ==
    /\ last.h = "touch_group"
    /\ last.arg = <<NoText, "t2">>
    /\ last.chat \in DOMAIN db.groups
    /\ db.groups[last.chat].title = <<<<"h">>>>
    /\ db.groups[last.chat].sales_master_manager_id = 2
    /\ db.groups[last.chat].sales_manager_id = 1
    /\ db.groups[last.chat].created_at = "t1"

\* C29: the submit looks the sales manager of the session's group up again.
\* When the unit reply of a session with a draft arrives and the group's
\* sales manager is no longer bound, has no credentials or is not active, the
\* flow is aborted: the reply is a refusal, no gateway method is called, no
\* order request is appended, the draft is removed and the session is idle.
C29_SubmitRechecksManager ==
    [][(/\ last'.h = "order_unit"
        /\ user_data[last'.user] # NoDraft
        /\ ~ActiveWithCredentials(db, last'.chat))
       => /\ last'.out \in {"no_manager", "not_active"}
          /\ last'.calls = <<>>
          /\ db' = db
          /\ user_data'[last'.user] = NoDraft
          /\ conv'[<<last'.chat, last'.user>>] = Idle]_vars

\* C30: on submit the staged photo is uploaded only when a photo was staged,
\* the deployment attaches order photos and the lead has been created before;
\* and when that upload fails, the created lead stays, one order request
\* without an attachment is still appended, the sales manager is still
\* notified (the submit ends as submitted), the draft is removed and the
\* session is idle.
C30_UploadFailureKeepsOrder ==
    [][(/\ last'.h = "order_unit"
        /\ \E i \in DOMAIN last'.calls : last'.calls[i] = "upload_file")
       => /\ user_data[last'.user] # NoDraft
          /\ user_data[last'.user][1].photo_path # NoPath
          /\ config.attach_order_photo
          /\ last'.calls = <<"create_lead", "upload_file">>
          /\ CreateLead(last'.arg[2].lead) = "ok"
          /\ (UploadFile(files, user_data[last'.user][1].photo_path[1],
                         last'.arg[2].upload) # "ok")
             => /\ Len(db'.orders) = Len(db.orders) + 1
                /\ db'.orders[Len(db'.orders)].payload.attachment = "none"
                /\ last'.out = "submitted"
                /\ user_data'[last'.user] = NoDraft
                /\ conv'[<<last'.chat, last'.user>>] = Idle]_vars

\* TRUE when the request of create_lead ends in a transport failure or in an
\* error status of the server.
LeadFailed(resp) == resp.exc \/ resp.status_code >= 400

\* C31: when the unit reply reaches create_lead (the draft exists and its
\* group's sales manager is active with credentials) and create_lead fails, by
\* a transport failure or an error status, the handler stops after that one
\* gateway call with the error as its reply: the draft and its staged photo
\* are released, the session is idle, and the database is as it was, so no
\* order request was appended and (the reply not being "submitted") the sales
\* manager was not notified.
C31_LeadFailureAborts ==
    [][(/\ last'.h = "order_unit"
        /\ user_data[last'.user] # NoDraft
        /\ ActiveWithCredentials(db, user_data[last'.user][1].chat_id)
        /\ LeadFailed(last'.arg[2].lead))
       => /\ last'.out = "lead_error"
          /\ last'.calls = <<"create_lead">>
          /\ db' = db
          /\ keyboards' = keyboards
          /\ user_data'[last'.user] = NoDraft
          /\ \A f \in files' : user_data[last'.user][1].photo_path # <<f>>
          /\ files' \subseteq files
          /\ conv'[<<last'.chat, last'.user>>] = Idle]_vars

\* C31 witness: a unit reply for a draft with a staged photo was refused by
\* the server with an error status; nothing was logged, and the draft, the
\* staged file and the session are gone.
C31_Witness ==
    /\ last.h = "order_unit"
    /\ last.out = "lead_error"
    /\ last.arg[2].lead.status_code = 401
    /\ last.calls = <<"create_lead">>
    /\ db.orders = <<>>
    /\ user_data[last.user] = NoDraft
    /\ files = {}
    /\ conv[<<last.chat, last.user>>] = Idle

\* TRUE when step a occurs in the steps st and step b occurs after it.
Before(st, a, b) ==
    \E i, j \in DOMAIN st : i < j /\ st[i] = a /\ st[j] = b

GatewayStep(step) == step \in {"create_lead", "upload_file"}

\* C32: a submit that succeeds has taken its steps in this order: the lead is
\* created, then the photo is uploaded (only when one is staged and photos
\* are attached), then the order request is appended, then the sales manager
\* is notified, then the draft is destroyed.  Whenever a unit reply appends
\* an order request, exactly one is appended, the lead was created before it
\* (and accepted by the server), and the row's sales manager is the one bound
\* to the draft's group when the unit reply arrived.  The recorded steps
\* agree with what the handler did: the gateway calls are the gateway steps,
\* the log grows exactly when the logging step was taken, and the draft is
\* gone when the clearing step was taken.
C32_SubmitOrder ==
    [][last'.h = "order_unit"
       => LET u == last'.user
              env == last'.arg[2]
              st == last'.steps
              n == Len(db.orders)
              appended == \E i \in DOMAIN st : st[i] = "log_order_request"
              cleared == \E i \in DOMAIN st : st[i] = "clear_order_draft"
          IN  /\ last'.out = "submitted"
                 => /\ user_data[u] # NoDraft
                    /\ st = <<"create_lead">>
                            \o (IF /\ user_data[u][1].photo_path # NoPath
                                   /\ config.attach_order_photo
                                THEN <<"upload_file">> ELSE <<>>)
                            \o <<"log_order_request", "send_message",
                                 "clear_order_draft">>
                    /\ env.notify
              /\ appended
                 => /\ Len(db'.orders) = n + 1
                    /\ SubSeq(db'.orders, 1, n) = db.orders
                    /\ Before(st, "create_lead", "log_order_request")
                    /\ LeadAccepted(env.lead)
                    /\ GetSalesManagerForGroup(db, user_data[u][1].chat_id) # NULL
                    /\ db'.orders[n + 1].sales_manager_id =
                           GetSalesManagerForGroup(db, user_data[u][1].chat_id)
              /\ appended <=> db' # db
              /\ cleared => user_data'[u] = NoDraft
              /\ last'.calls = SelectSeq(st, GatewayStep)]_vars

\* C32 witness: a submit with a staged photo went through all five steps;
\* the order request names the group's sales manager and the uploaded file.
C32_Witness ==
    /\ last.h = "order_unit"
    /\ last.out = "submitted"
    /\ last.steps = <<"create_lead", "upload_file", "log_order_request",
                      "send_message", "clear_order_draft">>
    /\ Len(db.orders) = 1
    /\ db.orders[1].sales_manager_id = db.groups[db.orders[1].chat_id].sales_manager_id
    /\ db.orders[1].payload.attachment = "file_url"
    /\ user_data[last.user] = NoDraft

\* The replies with which a handler of the conversation gives the order up.
AbortReplies == {"no_draft", "group_only", "no_manager", "not_active", "lead_error"}

\* TRUE when the conversation may take a session from one state to another
\* while handling h with reply out.
StepAllowed(from, to, h, out) ==
    \/ to = ORDER_PHOTO /\ h = "order_start" /\ out = "started"
    \/ from = ORDER_PHOTO /\ to = ORDER_PHONE /\ h \in {"order_photo", "order_skip"}
    \/ from = ORDER_PHONE /\ to = ORDER_NOTES /\ h = "order_phone"
    \/ from = ORDER_NOTES /\ to = ORDER_QTY /\ h = "order_notes"
    \/ from = ORDER_QTY /\ to = ORDER_UNIT /\ h = "order_quantity"
    \/ from = ORDER_UNIT /\ to = Idle /\ h = "order_unit"
    \/ to = Idle /\ h = "order_cancel"
    \/ to = Idle /\ h \in OrderHandlers /\ out \in AbortReplies

\* C33: the state of a session changes only while an update of that session
\* is handled, and only one state forward along photo, phone, notes,
\* quantity, unit, end; or to the end by /cancel or by a handler giving up;
\* or to the photo state by /order.  In the photo state a photo (with a draft
\* to put it in) and /skip both lead to the phone state.
C33_StateMachine ==
    [][/\ \A k \in Chats \X Users :
              conv'[k] # conv[k]
              => /\ k = <<last'.chat, last'.user>>
                 /\ StepAllowed(conv[k], conv'[k], last'.h, last'.out)
       /\ last'.h = "order_skip"
          => /\ conv[<<last'.chat, last'.user>>] = ORDER_PHOTO
             /\ conv'[<<last'.chat, last'.user>>] = ORDER_PHONE
       /\ (last'.h = "order_photo" /\ user_data[last'.user] # NoDraft)
          => /\ conv[<<last'.chat, last'.user>>] = ORDER_PHOTO
             /\ conv'[<<last'.chat, last'.user>>] = ORDER_PHONE]_vars

\* C33 witness: a session has walked from the start through photo, phone,
\* notes and quantity and now waits for the unit.
C33_Witness ==
    /\ last.h = "order_quantity"
    /\ conv[<<last.chat, last.user>>] = ORDER_UNIT
    /\ user_data[last.user] # NoDraft
    /\ user_data[last.user][1].chat_id = last.chat
    /\ user_data[last.user][1].photo_path # NoPath
    /\ user_data[last.user][1].phone # NoText
    /\ user_data[last.user][1].notes # NoText
    /\ user_data[last.user][1].quantity # NoText

TextHandlers == {"order_phone", "order_notes", "order_quantity", "order_unit"}

\* The state after the given one along the flow.
StateAfter(state) ==
    CASE state = ORDER_PHONE -> ORDER_NOTES
      [] state = ORDER_NOTES -> ORDER_QTY
      [] state = ORDER_QTY -> ORDER_UNIT
      [] state = ORDER_UNIT -> Idle

\* The draft with the trimmed reply in the field that belongs to the state.
WithReply(draft, state, text) ==
    [draft EXCEPT !.phone = IF state = ORDER_PHONE THEN <<Strip(text)>> ELSE @,
                  !.notes = IF state = ORDER_NOTES THEN <<Strip(text)>> ELSE @,
                  !.quantity = IF state = ORDER_QTY THEN <<Strip(text)>> ELSE @,
                  !.unit = IF state = ORDER_UNIT THEN <<Strip(text)>> ELSE @]

\* C34: a text reply handled in the phone, notes, quantity or unit state for
\* an operator with a draft stores the trimmed text in the field of that
\* state and in no other field of the draft (seen in the draft while it
\* lasts, and in the order request the unit reply appends), and takes the
\* session one state forward: to notes, quantity, unit, and from unit to the
\* end.
C34_ReplyStoredInItsField ==
    [][(/\ last'.h \in TextHandlers
        /\ user_data[last'.user] # NoDraft)
       => LET k == <<last'.chat, last'.user>>
              u == last'.user
              stored == WithReply(user_data[u][1], conv[k], last'.arg[1])
              n == Len(db.orders)
          IN  /\ user_data'[u] # NoDraft => user_data'[u] = <<stored>>
              /\ Len(db'.orders) > n
                 => /\ db'.orders[n + 1].payload.phone = stored.phone
                    /\ db'.orders[n + 1].payload.notes = stored.notes
                    /\ db'.orders[n + 1].payload.quantity = stored.quantity
                    /\ db'.orders[n + 1].payload.unit = stored.unit
              /\ conv'[k] = StateAfter(conv[k])]_vars

\* TRUE when a reply has been stored in the field and is not the empty text.
Collected(field) == field # NoText /\ field # <<<<>>>>

\* C35: in every reachable state, for every session: in flight, the operator
\* has a draft; in the notes state the draft holds the phone; in the quantity
\* state, the phone and the notes; in the unit state, the phone, the notes
\* and the quantity; and every logged order request carries a phone, notes,
\* a quantity and a unit.
C35_DraftFollowsState ==
    /\ \A k \in Chats \X Users :
          LET state == conv[k]
              draft == user_data[k[2]]
          IN  /\ state \in InFlight => draft # NoDraft
              /\ state \in {ORDER_NOTES, ORDER_QTY, ORDER_UNIT}
                 => draft # NoDraft /\ Collected(draft[1].phone)
              /\ state \in {ORDER_QTY, ORDER_UNIT}
                 => draft # NoDraft /\ Collected(draft[1].notes)
              /\ state = ORDER_UNIT
                 => draft # NoDraft /\ Collected(draft[1].quantity)
    /\ \A i \in DOMAIN db.orders :
          /\ Collected(db.orders[i].payload.phone)
          /\ Collected(db.orders[i].payload.notes)
          /\ Collected(db.orders[i].payload.quantity)
          /\ Collected(db.orders[i].payload.unit)

\* C36: an order request appended by a unit reply records the chat and the
\* user of the session in which the unit reply was sent, and the sales
\* manager whose credentials were used for the lead (the one the row names)
\* is the sales manager bound to that chat.
C36_OrderOfItsSession ==
    [][(/\ last'.h = "order_unit"
        /\ Len(db'.orders) > Len(db.orders))
       => LET row == db'.orders[Len(db'.orders)] IN
          /\ row.chat_id = last'.chat
          /\ row.requester_id = last'.user
          /\ row.sales_manager_id = GetSalesManagerForGroup(db, last'.chat)]_vars

\* C37: in every reachable state of the storage, whatever calls were made
\* (assign_sales_manager for a chat without a groups row and
\* clear_sales_manager included), groups.sales_manager_id of group g is m
\* exactly when the sales_managers row of m has group_chat_id g.
C37_BindingSidesAgree ==
    \A g \in Groups, m \in Users :
        (g \in DOMAIN db.groups /\ db.groups[g].sales_manager_id = m)
        <=> (m \in DOMAIN db.managers /\ db.managers[m].group_chat_id = g)

\* C38: when the assignment callback names operator Y for a group whose
\* bound sales manager is another operator X, the assignment fails (it is
\* refused by the storage, or turned away before the call because the
\* presser is no master manager or Y is not found in the chat) and no stored
\* record changes: X stays the group's sales manager with its status and
\* credentials, and Y gets no sales manager record.
C38_SecondManagerRejected ==
    [][(/\ last'.h = "assign_sm"
        /\ GetSalesManagerForGroup(db, last'.arg[1]) \notin {NULL, last'.arg[2]})
       => LET g == last'.arg[1]
              X == GetSalesManagerForGroup(db, g)
              Y == last'.arg[2]
          IN  /\ last'.out \in {"error", "conflict", "denied", "not_found"}
              /\ IsMasterManager(db, last'.user)
                 => last'.out \in {"error", "conflict", "not_found"}
              /\ db' = db
              /\ GetSalesManagerForGroup(db', g) = X
              /\ db'.managers[X] = db.managers[X]
              /\ HasManager(db', Y) <=> HasManager(db, Y)]_vars

\* C38 witness: a master manager pressed the button of a second operator in
\* a group whose sales manager is active with credentials; the storage
\* refused, the second operator has no record and the first is still bound.
C38_Witness ==
    /\ last.h = "assign_sm"
    /\ last.out = "error"
    /\ IsMasterManager(db, last.user)
    /\ ~HasManager(db, last.arg[2])
    /\ GetSalesManagerForGroup(db, last.arg[1]) \notin {NULL, last.arg[2]}
    /\ ActiveWithCredentials(db, last.arg[1])

\* The pairs of a state and a kind of message that the state does not accept.
NotAccepted ==
    {<<ORDER_PHOTO, "text">>, <<Idle, "/cancel">>, <<Idle, "/skip">>}
    \cup ({ORDER_PHONE, ORDER_NOTES, ORDER_QTY, ORDER_UNIT} \X {"photo", "/skip"})

\* C39: a message that the session's state does not accept (a text in the
\* photo state; a photo or /skip in the phone, notes, quantity or unit state;
\* /cancel or /skip when idle) is taken by no handler of the conversation:
\* it goes to the tracking of group messages or is dropped.  Handling it
\* leaves the state of every session, every draft and every staged file as
\* they were, calls no gateway method and logs no order.
C39_UnacceptedInputIgnored ==
    [][/\ \A p \in NotAccepted, t \in {"group", "private"} :
              Dispatch(p[1], t, p[2]) \in {"group_activity", "none"}
       /\ (\/ last'.h = "unhandled"
           \/ last'.h = "group_activity" /\ conv[<<last'.chat, last'.user>>] \in InFlight)
          => /\ conv' = conv
             /\ user_data' = user_data
             /\ files' = files
             /\ last'.calls = <<>>
             /\ db'.orders = db.orders
             /\ db'.managers = db.managers]_vars

\* C39 witness: /skip arrived in the unit state of a session that holds a
\* complete draft; it was dropped and the session still waits for the unit.
C39_Witness ==
    /\ last.h = "unhandled"
    /\ last.arg = <<"/skip", ORDER_UNIT>>
    /\ conv[<<last.chat, last.user>>] = ORDER_UNIT
    /\ user_data[last.user] # NoDraft
    /\ user_data[last.user][1].quantity # NoText

\* C40: a step of the assignment callback that writes to the storage is
\* taken only while the operator who pressed the button is a master manager:
\* however the callback and the administrator's /remove_master_manager for
\* that operator are ordered, the operator's record exists at the moment of
\* the write, and a callback pressed by a removed operator writes nothing.
C40_AssignOnlyByMasterManager ==
    [][/\ (last'.h = "assign_sm" /\ db' # db) => IsMasterManager(db, last'.user)
       /\ loop.call = "get_chat_member" => IsMasterManager(db, loop.user)
       /\ (last'.h = "assign_sm" /\ last' # last /\ ~IsMasterManager(db, last'.user))
          => db' = db /\ last'.out = "denied"]_vars

\* C40 witness: the callback of master manager 2 waited for get_chat_member
\* and then bound a sales manager; and after the administrator has removed
\* operator 2, the same button is refused.
C40_Witness ==
    /\ last.h = "assign_sm"
    /\ last.user = 2
    /\ last.out = "denied"
    /\ ~IsMasterManager(db, 2)
    /\ GetSalesManagerForGroup(db, -1) # NULL
    /\ loop = LoopIdle

====
